---- MODULE Spec2Model ----
(***************************************************************************)
(* A model of the fselect query evaluator (src/src/searcher.rs): the       *)
(* directory walk of Searcher::visit_dirs, the per-entry check_file, the   *)
(* predicate evaluator conforms with its three lazily filled metadata      *)
(* slots, the projection get_field_value, and list_search_results.         *)
(***************************************************************************)
EXTENDS Integers, Sequences, FiniteSets, TLC

VARIABLES
    query,              \* Searcher.query: the parsed Query (immutable after Init)
    found,              \* Searcher.found
    output_buffer,      \* Searcher.output_buffer: TopN<Criteria, String>
    raw_output_buffer,  \* Searcher.raw_output_buffer
    gitignore_map,      \* Searcher.gitignore_map: directory -> filters
    root_idx,           \* position of the `for root in roots` loop of list_search_results
    stack,              \* the visit_dirs activation records, innermost last
    printed,            \* what has been written to stdout, one element per print!
    checked,            \* log of the check_file calls made so far
    pc,                 \* position of list_search_results
    cf_entry,           \* the DirEntry handed to a single check_file call
    cf_info,            \* the Option<FileInfo> handed to that call
    cf_res              \* what that call computed

vars == <<query, found, output_buffer, raw_output_buffer, gitignore_map,
          root_idx, stack, printed, checked, pc, cf_entry, cf_info, cf_res>>

----------------------------------------------------------------------------
(* Rust's Option<T>: None is the empty sequence, Some(v) is <<v>>.          *)

None == <<>>
Some(v) == <<v>>
IsSome(o) == o /= <<>>
Unwrap(o) == o[1]

(* Bounds of the model. *)
MaxLimit == 2
MaxDepthOpt == 2

----------------------------------------------------------------------------
(* The closed enumeration Field, grouped as get_field_value and conforms   *)
(* treat it.                                                               *)

ModeBoolFields == {"IsPipe", "IsCharacterDevice", "IsBlockDevice", "IsSocket",
                   "UserRead", "UserWrite", "UserExec",
                   "GroupRead", "GroupWrite", "GroupExec",
                   "OtherRead", "OtherWrite", "OtherExec"}
ExtBoolFields == {"IsArchive", "IsAudio", "IsBook", "IsDoc", "IsImage", "IsSource", "IsVideo"}
MetaBoolFields == {"IsDir", "IsFile", "IsSymlink"}
BoolFields == ModeBoolFields \cup ExtBoolFields \cup MetaBoolFields
                 \cup {"IsHidden", "HasXattrs", "IsShebang"}
Mp3Fields == {"Bitrate", "Freq", "Title", "Artist", "Album", "Year", "Genre"}
DimFields == {"Width", "Height"}
Fields == BoolFields \cup Mp3Fields \cup DimFields
            \cup {"Name", "Path", "Size", "FormattedSize", "Mode", "Uid", "Gid",
                  "User", "Group", "Created", "Accessed", "Modified"}

Ops == {"Eq", "Ne", "Eeq", "Ene", "Gt", "Gte", "Lt", "Lte", "Rx", "Like"}

----------------------------------------------------------------------------
(* Conversions of the comparison value.  A value is a string; each        *)
(* conversion is given by what it yields on the strings of the model.      *)

\* util::str_to_bool: true, 1 and yes are truthy, anything else is not.
str_to_bool(val) == val \in {"true", "1", "yes"}

\* the numbers whose decimal literals occur in the model
Numbers == {0, 1, 2, 3, 4, 5, 6, 7, 9, 10, 20, 30, 40, 50, 60, 128, 1000, 1024, 1999, 2048, 4096,
            44100}

\* str::parse::<u32>() / parse::<usize>(): Some(n) for a decimal literal.
parse_int(val) ==
    LET m == {n \in Numbers : ToString(n) = val}
    IN IF m = {} THEN None ELSE Some(CHOOSE n \in m : TRUE)

\* the negative numbers whose decimal literals occur in the model
NegativeNumbers == {0 - 5, 0 - 1}

\* str::parse::<i64>(): Some(n) for a decimal literal with an optional minus sign.
parse_i64(val) ==
    LET m == {n \in Numbers \cup NegativeNumbers : ToString(n) = val}
    IN IF m = {} THEN None ELSE Some(CHOOSE n \in m : TRUE)

\* util::parse_filesize: a decimal literal with an optional k/m/g suffix.
parse_filesize(val) ==
    CASE val = "1k" -> Some(1024)
      [] OTHER -> parse_int(val)

\* Regex::is_match: a compiled regex is modelled by the set of strings it matches.
is_match(regex, s) == s \in Unwrap(regex)

----------------------------------------------------------------------------
(* File names.  The predicates on names are given by tables over the names *)
(* of the model: has_extension lower-cases the name and tests ends_with.    *)

\* the lower-cased extension the name ends with ("" when it has none)
LowerExt(name) ==
    CASE name \in {"a.txt", "inner/x.txt"} -> ".txt"
      [] name \in {"b.log", "c.log"} -> ".log"
      [] name \in {"x.tmp", "c.tmp"} -> ".tmp"
      [] name \in {"z.zip", "Z.ZIP", "/r1/z.zip", "y.zip", "/r2/y.zip", "/z.zip",
                   "p.zip", "/e/p.zip"} -> ".zip"
      [] name = "lib.jar" -> ".jar"
      [] name \in {"pic.png", "bad.png", "inner/p.png"} -> ".png"
      [] name \in {"song.mp3", "notag.mp3"} -> ".mp3"
      [] name = "run.py" -> ".py"
      [] name = "book.pdf" -> ".pdf"
      [] name = "clip.m4p" -> ".m4p"
      [] name = "scan.tiff" -> ".tiff"
      [] OTHER -> ""

has_extension(file_name, extensions) == LowerExt(file_name) \in extensions

is_zip_archive(n) == has_extension(n, {".zip", ".jar", ".war", ".ear"})
is_archive(n) == has_extension(n, {".7z", ".bz2", ".bzip2", ".gz", ".gzip", ".rar", ".tar", ".xz", ".zip"})
is_audio(n) == has_extension(n, {".aac", ".aiff", ".amr", ".flac", ".gsm", ".m4a", ".m4b", ".m4p", ".mp3", ".ogg", ".wav", ".wma"})
is_book(n) == has_extension(n, {".azw3", ".chm", ".epub", ".fb2", ".mobi", ".pdf"})
is_doc(n) == has_extension(n, {".accdb", ".doc", ".docm", ".docx", ".dot", ".dotm", ".dotx", ".mdb", ".ods", ".odt", ".pdf", ".potm", ".potx", ".ppt", ".pptm", ".pptx", ".rtf", ".xlm", ".xls", ".xlsm", ".xlsx", ".xlt", ".xltm", ".xltx", ".xps"})
is_image(n) == has_extension(n, {".bmp", ".gif", ".jpeg", ".jpg", ".png", ".tiff", ".webp"})
is_image_dim_readable(n) == has_extension(n, {".bmp", ".gif", ".jpeg", ".jpg", ".png", ".webp"})
is_source(n) == has_extension(n, {".asm", ".c", ".cpp", ".cs", ".go", ".h", ".hpp", ".java", ".js", ".jsp", ".pas", ".php", ".pl", ".pm", ".py", ".rb", ".rs", ".swift"})
is_video(n) == has_extension(n, {".3gp", ".avi", ".flv", ".m4p", ".m4v", ".mkv", ".mov", ".mp4", ".mpeg", ".mpg", ".webm", ".wmv"})

ExtFunc(field, n) ==
    CASE field = "IsArchive" -> is_archive(n)
      [] field = "IsAudio" -> is_audio(n)
      [] field = "IsBook" -> is_book(n)
      [] field = "IsDoc" -> is_doc(n)
      [] field = "IsImage" -> is_image(n)
      [] field = "IsSource" -> is_source(n)
      [] field = "IsVideo" -> is_video(n)

\* is_hidden on unix: the name starts with a dot; in archive mode the last
\* path component of the member name does (no member name holds a backslash).
is_hidden(file_name, archive_mode) ==
    IF archive_mode
    THEN file_name \in {".hid", "inner/.cfg"}
    ELSE file_name \in {".hid", ".gitignore"}

----------------------------------------------------------------------------
(* Unix modes (mode.rs): a u32 holding the file type in bits 12..15 and the *)
(* nine permission bits below.                                              *)

HasBit(mode, b) == (mode \div b) % 2 = 1
FileType(mode) == (mode \div 4096) % 16

\* the mode::mode_* test that conforms and print_file_mode pass for each field
mode_func(field, mode) ==
    CASE field = "IsPipe" -> FileType(mode) = 1
      [] field = "IsCharacterDevice" -> FileType(mode) = 2
      [] field = "IsBlockDevice" -> FileType(mode) = 6
      [] field = "IsSocket" -> FileType(mode) = 12
      [] field = "UserRead" -> HasBit(mode, 256)
      [] field = "UserWrite" -> HasBit(mode, 128)
      [] field = "UserExec" -> HasBit(mode, 64)
      [] field = "GroupRead" -> HasBit(mode, 32)
      [] field = "GroupWrite" -> HasBit(mode, 16)
      [] field = "GroupExec" -> HasBit(mode, 8)
      [] field = "OtherRead" -> HasBit(mode, 4)
      [] field = "OtherWrite" -> HasBit(mode, 2)
      [] field = "OtherExec" -> HasBit(mode, 1)

\* mode::format_mode / mode::get_mode: the ls-style rendering
format_mode(mode) ==
    CASE mode = 33188 -> "-rw-r--r--"
      [] mode = 33261 -> "-rwxr-xr-x"
      [] mode = 16877 -> "drwxr-xr-x"
      [] mode = 4480 -> "prw-------"
      [] OTHER -> "----------"

\* UsersCache::get_user_by_uid / get_group_by_gid
get_user_by_uid(uid) ==
    CASE uid = 0 -> Some("root")
      [] uid = 1000 -> Some("alice")
      [] OTHER -> None

get_group_by_gid(gid) ==
    CASE gid = 0 -> Some("wheel")
      [] gid = 1000 -> Some("staff")
      [] OTHER -> None

\* Display of a bool and of a number (format!("{}", v))
BoolStr(b) == IF b THEN "true" ELSE "false"

NumStr(n) == ToString(n)

----------------------------------------------------------------------------
(* What the file system holds.  fs::Metadata is a record; a DirEntry is    *)
(* modelled with what each provider answers for its path: symlink_metadata *)
(* (lmeta), fs::metadata (fmeta), imagesize::size (dim),                   *)
(* mp3_metadata::read_from_file (mp3), list_xattr (xattrs) and the first   *)
(* two bytes (shebang).  A failed provider answers None.                   *)

Metadata(len, mode, uid, created) ==
    [len |-> len, mode |-> mode,
     is_dir |-> FileType(mode) = 4, is_file |-> FileType(mode) = 8,
     is_symlink |-> FileType(mode) = 10,
     uid |-> Some(uid), gid |-> Some(uid),
     created |-> created, accessed |-> Some(7), modified |-> Some(5)]

DirEntry(name, path, meta, dim, mp3, xattrs, shebang) ==
    [name |-> name, path |-> path, lmeta |-> meta, fmeta |-> meta,
     dim |-> dim, mp3 |-> mp3, xattrs |-> xattrs, shebang |-> shebang]

\* a regular file with nothing special about it
PlainFile(name, path, len) ==
    DirEntry(name, path, Some(Metadata(len, 33188, 1000, Some(3))), None, None, Some(FALSE), FALSE)

Directory(name, path, len) ==
    DirEntry(name, path, Some(Metadata(len, 16877, 1000, Some(3))), None, None, Some(FALSE), FALSE)

\* fileinfo::FileInfo of an archive member
FileInfo(name, size, mode, modified) ==
    [name |-> name, size |-> size, mode |-> mode, modified |-> modified]

Mp3Tag(title, artist, album, year, genre) ==
    [title |-> title, artist |-> artist, album |-> album, year |-> year, genre |-> genre]

MP3Metadata(bitrate, freq, tag) == [bitrate |-> bitrate, sampling_freq |-> freq, tag |-> tag]

----------------------------------------------------------------------------
(* The expression tree (parser::Expr).  A leaf is (field, op, val) with an *)
(* optional precompiled regex and the datetime range; an internal node is  *)
(* (logical_op, left, right).                                              *)

Leaf(field, op, val, regex, dt_from, dt_to) ==
    [kind |-> "leaf", field |-> field, op |-> op, val |-> val, regex |-> regex,
     dt_from |-> dt_from, dt_to |-> dt_to]

Node(logical_op, left, right) ==
    [kind |-> "node", logical_op |-> logical_op, left |-> left, right |-> right]

\* a leaf without regex, its range unused
Pred(field, op, val) == Leaf(field, op, val, None, 0, 0)

----------------------------------------------------------------------------
(* The lazy providers.  Each returns the slot and the provider calls it    *)
(* made (a ghost log used to count fetches).                               *)

\* a failed fetch leaves the slot None
update_meta(entry, meta, follow_symlinks) ==
    IF ~IsSome(meta)
    THEN [slot |-> IF follow_symlinks THEN entry.fmeta ELSE entry.lmeta,
          calls |-> <<"stat">>]
    ELSE [slot |-> meta, calls |-> <<>>]

update_img_dimensions(entry, dim) ==
    IF dim = None
    THEN [slot |-> entry.dim, calls |-> <<"imagesize">>]
    ELSE [slot |-> dim, calls |-> <<>>]

update_mp3_meta(entry, mp3) ==
    IF mp3 = None
    THEN [slot |-> entry.mp3, calls |-> <<"mp3">>]
    ELSE [slot |-> mp3, calls |-> <<>>]

----------------------------------------------------------------------------
(* The comparisons conforms applies once the value of the field is known.  *)

\* Name, Path, User, Group
StrCmp(op, val, regex, s) ==
    CASE op = "Eq" -> IF IsSome(regex) THEN is_match(regex, s) ELSE val = s
      [] op = "Ne" -> IF IsSome(regex) THEN ~is_match(regex, s) ELSE val /= s
      [] op \in {"Rx", "Like"} -> IF IsSome(regex) THEN is_match(regex, s) ELSE FALSE
      [] op = "Eeq" -> val = s
      [] op = "Ene" -> val /= s
      [] OTHER -> FALSE

\* Mode
StrCmpMode(op, val, regex, s) ==
    CASE op = "Eq" -> IF IsSome(regex) THEN is_match(regex, s) ELSE val = s
      [] op = "Ne" -> IF IsSome(regex) THEN ~is_match(regex, s) ELSE val /= s
      [] op \in {"Rx", "Like"} -> IF IsSome(regex) THEN is_match(regex, s) ELSE FALSE
      [] OTHER -> FALSE

\* Title, Artist, Album, Genre
StrCmpTag(op, val, regex, s) ==
    CASE op \in {"Eq", "Eeq"} -> IF IsSome(regex) THEN is_match(regex, s) ELSE val = s
      [] op \in {"Ne", "Ene"} -> IF IsSome(regex) THEN ~is_match(regex, s) ELSE val /= s
      [] op \in {"Rx", "Like"} -> IF IsSome(regex) THEN is_match(regex, s) ELSE FALSE
      [] OTHER -> FALSE

\* Size, Uid, Gid, Width, Height, Bitrate, Freq, Year
NumCmp(op, a, b) ==
    CASE op \in {"Eq", "Eeq"} -> a = b
      [] op \in {"Ne", "Ene"} -> a /= b
      [] op = "Gt" -> a > b
      [] op = "Gte" -> a >= b
      [] op = "Lt" -> a < b
      [] op = "Lte" -> a <= b
      [] OTHER -> FALSE

\* IsDir, IsFile, IsSymlink, IsHidden, HasXattrs and confirm_file_ext
BoolCmp(op, bool_val, b) ==
    CASE op \in {"Eq", "Eeq"} -> IF bool_val THEN b ELSE ~b
      [] op \in {"Ne", "Ene"} -> IF bool_val THEN ~b ELSE b
      [] OTHER -> FALSE

\* a comparison whose Gt tests the start of the range
DtCmpGtStart(op, dt, start, finish) ==
    CASE op = "Eeq" -> dt = start
      [] op = "Ene" -> dt /= start
      [] op = "Eq" -> dt >= start /\ dt <= finish
      [] op = "Ne" -> dt < start \/ dt > finish
      [] op = "Gt" -> dt > start
      [] op = "Gte" -> dt >= start
      [] op = "Lt" -> dt < start
      [] op = "Lte" -> dt <= finish
      [] OTHER -> FALSE

\* Created, Accessed, Modified
DtCmp(op, dt, start, finish) ==
    CASE op = "Eeq" -> dt = start
      [] op = "Ene" -> dt /= start
      [] op = "Eq" -> dt >= start /\ dt <= finish
      [] op = "Ne" -> dt < start \/ dt > finish
      [] op = "Gt" -> dt > finish
      [] op = "Gte" -> dt >= start
      [] op = "Lt" -> dt < start
      [] op = "Lte" -> dt <= finish
      [] OTHER -> FALSE

----------------------------------------------------------------------------
(* conforms on a leaf.  The result is (result, meta, dim, mp3) as in the   *)
(* source, plus the ghost log `calls` of the providers invoked.            *)

Res(result, meta, dim, mp3, calls) ==
    [result |-> result, meta |-> meta, dim |-> dim, mp3 |-> mp3, calls |-> calls]

\* str::ends_with('/') on the member names of the model
EndsWithSlash(name) == name \in {"inner/"}

\* the early returns without the one of Field::Uid
VirtualFalseFieldsNoUid ==
    {"User", "Gid", "Group", "Created", "Accessed", "HasXattrs", "IsShebang",
     "Width", "Height", "Bitrate", "Freq", "Title", "Artist", "Album", "Year", "Genre"}

\* the fields whose handler starts with `if file_info.is_some() { return (false, ..) }`
VirtualFalseFields ==
    {"Uid", "User", "Gid", "Group", "Created", "Accessed", "HasXattrs", "IsShebang",
     "Width", "Height", "Bitrate", "Freq", "Title", "Artist", "Album", "Year", "Genre"}

\* Field::Name and Field::Path
ConformsName(entry, file_info, expr) ==
    LET s == IF IsSome(file_info) THEN Unwrap(file_info).name
             ELSE IF expr.field = "Name" THEN entry.name ELSE entry.path
    IN StrCmp(expr.op, expr.val, expr.regex, s)

\* Field::Size | Field::FormattedSize
ConformsSize(entry, file_info, expr, meta, dim, mp3, follow_symlinks) ==
    LET um == update_meta(entry, meta, follow_symlinks)
        meta2 == IF IsSome(file_info) THEN meta ELSE um.slot
        calls == IF IsSome(file_info) THEN <<>> ELSE um.calls
        file_size == IF IsSome(file_info) THEN Some(Unwrap(file_info).size)
                     ELSE IF IsSome(meta2) THEN Some(Unwrap(meta2).len) ELSE None
        size == parse_filesize(expr.val)
    IN Res(IsSome(file_size) /\ IsSome(size)
              /\ NumCmp(expr.op, Unwrap(file_size), Unwrap(size)),
           meta2, dim, mp3, calls)

\* Field::Uid and Field::Gid (real entries)
ConformsUid(entry, expr, meta, dim, mp3, follow_symlinks) ==
    LET um == update_meta(entry, meta, follow_symlinks)
        id == parse_int(expr.val)
        file_id == IF ~IsSome(um.slot) THEN None
                   ELSE IF expr.field = "Uid" THEN Unwrap(um.slot).uid
                   ELSE Unwrap(um.slot).gid
    IN Res(IsSome(um.slot) /\ IsSome(id) /\ IsSome(file_id)
              /\ NumCmp(expr.op, Unwrap(file_id), Unwrap(id)),
           um.slot, dim, mp3, um.calls)

\* Field::User and Field::Group (real entries)
ConformsUser(entry, expr, meta, dim, mp3, follow_symlinks) ==
    LET um == update_meta(entry, meta, follow_symlinks)
        file_id == IF ~IsSome(um.slot) THEN None
                   ELSE IF expr.field = "User" THEN Unwrap(um.slot).uid
                   ELSE Unwrap(um.slot).gid
        who == IF ~IsSome(file_id) THEN None
               ELSE IF expr.field = "User" THEN get_user_by_uid(Unwrap(file_id))
               ELSE get_group_by_gid(Unwrap(file_id))
    IN Res(IsSome(who) /\ StrCmp(expr.op, expr.val, expr.regex, Unwrap(who)),
           um.slot, dim, mp3, um.calls)

\* Field::IsDir, Field::IsFile, Field::IsSymlink
ConformsMetaBool(entry, file_info, expr, meta, dim, mp3, follow_symlinks) ==
    LET um == update_meta(entry, meta, follow_symlinks)
        meta2 == IF IsSome(file_info) THEN meta ELSE um.slot
        calls == IF IsSome(file_info) THEN <<>> ELSE um.calls
        b == IF IsSome(file_info)
             THEN CASE expr.field = "IsDir" -> Some(EndsWithSlash(Unwrap(file_info).name))
                    [] expr.field = "IsFile" -> Some(~EndsWithSlash(Unwrap(file_info).name))
                    [] expr.field = "IsSymlink" -> Some(FALSE)
             ELSE IF ~IsSome(meta2) THEN None
             ELSE CASE expr.field = "IsDir" -> Some(Unwrap(meta2).is_dir)
                    [] expr.field = "IsFile" -> Some(Unwrap(meta2).is_file)
                    [] expr.field = "IsSymlink" -> Some(Unwrap(meta2).is_symlink)
    IN Res(IsSome(b) /\ BoolCmp(expr.op, str_to_bool(expr.val), Unwrap(b)),
           meta2, dim, mp3, calls)

\* the match on expr_op of confirm_file_mode
ModeBoolCmp(op, bool_val, b) ==
    CASE op = "Eq" -> IF bool_val THEN b ELSE ~b
      [] op = "Ne" -> IF bool_val THEN ~b ELSE b
      [] OTHER -> FALSE

confirm_file_mode(entry, file_info, expr, meta, dim, mp3, follow_symlinks) ==
    LET um == update_meta(entry, meta, follow_symlinks)
        meta2 == IF IsSome(file_info) THEN meta ELSE um.slot
        calls == IF IsSome(file_info) THEN <<>> ELSE um.calls
        mode == IF IsSome(file_info) THEN Unwrap(file_info).mode
                ELSE IF IsSome(meta2) THEN Some(Unwrap(meta2).mode) ELSE None
    IN Res(IsSome(mode)
              /\ ModeBoolCmp(expr.op, str_to_bool(expr.val), mode_func(expr.field, Unwrap(mode))),
           meta2, dim, mp3, calls)

\* Field::Mode
ConformsMode(entry, file_info, expr, meta, dim, mp3, follow_symlinks) ==
    LET um == update_meta(entry, meta, follow_symlinks)
        meta2 == IF IsSome(file_info) THEN meta ELSE um.slot
        calls == IF IsSome(file_info) THEN <<>> ELSE um.calls
        mode == IF IsSome(file_info) THEN Unwrap(file_info).mode
                ELSE IF IsSome(meta2) THEN Some(Unwrap(meta2).mode) ELSE None
    IN Res(IsSome(mode) /\ StrCmpMode(expr.op, expr.val, expr.regex, format_mode(Unwrap(mode))),
           meta2, dim, mp3, calls)

\* Field::IsHidden
ConformsHidden(entry, file_info, expr) ==
    LET h == IF IsSome(file_info) THEN is_hidden(Unwrap(file_info).name, TRUE)
             ELSE is_hidden(entry.name, FALSE)
    IN BoolCmp(expr.op, str_to_bool(expr.val), h)

\* Field::Created and Field::Accessed (real entries)
ConformsCreated(entry, expr, meta, dim, mp3, follow_symlinks) ==
    LET um == update_meta(entry, meta, follow_symlinks)
        dt == IF ~IsSome(um.slot) THEN None
              ELSE IF expr.field = "Created" THEN Unwrap(um.slot).created
              ELSE Unwrap(um.slot).accessed
    IN Res(IsSome(dt) /\ DtCmp(expr.op, Unwrap(dt), expr.dt_from, expr.dt_to),
           um.slot, dim, mp3, um.calls)

\* Field::Modified
ConformsModified(entry, file_info, expr, meta, dim, mp3, follow_symlinks) ==
    LET um == update_meta(entry, meta, follow_symlinks)
        meta2 == IF IsSome(file_info) THEN meta ELSE um.slot
        calls == IF IsSome(file_info) THEN <<>> ELSE um.calls
        dt == IF IsSome(file_info) THEN Some(Unwrap(file_info).modified)
              ELSE IF IsSome(meta2) THEN Unwrap(meta2).modified ELSE None
    IN Res(IsSome(dt) /\ DtCmp(expr.op, Unwrap(dt), expr.dt_from, expr.dt_to),
           meta2, dim, mp3, calls)

\* Field::HasXattrs (unix, real entries): File::open and list_xattr
ConformsHasXattrs(entry, expr, meta, dim, mp3) ==
    Res(IsSome(entry.xattrs) /\ BoolCmp(expr.op, str_to_bool(expr.val), Unwrap(entry.xattrs)),
        meta, dim, mp3, <<"xattr">>)

\* Field::IsShebang (real entries): result = is_shebang(&entry.path())
ConformsIsShebang(entry, expr, meta, dim, mp3) ==
    Res(entry.shebang, meta, dim, mp3, <<"shebang">>)

\* Field::Width and Field::Height (real entries)
ConformsDim(entry, expr, meta, dim, mp3) ==
    IF ~is_image_dim_readable(entry.name)
    THEN Res(FALSE, meta, dim, mp3, <<>>)
    ELSE LET ud == update_img_dimensions(entry, dim)
             v == parse_int(expr.val)
             side == IF expr.field = "Width" THEN 1 ELSE 2
         IN Res(IsSome(ud.slot) /\ IsSome(v)
                   /\ NumCmp(expr.op, Unwrap(ud.slot)[side], Unwrap(v)),
                meta, ud.slot, mp3, ud.calls)

\* Field::Bitrate and Field::Freq (real entries)
ConformsFrame(entry, expr, meta, dim, mp3) ==
    LET up == update_mp3_meta(entry, mp3)
        v == parse_int(expr.val)
        x == IF expr.field = "Bitrate" THEN Unwrap(up.slot).bitrate
             ELSE Unwrap(up.slot).sampling_freq
    IN Res(IsSome(up.slot) /\ IsSome(v) /\ NumCmp(expr.op, x, Unwrap(v)),
           meta, dim, up.slot, up.calls)

\* Field::Title, Artist, Album, Genre (real entries)
ConformsTag(entry, expr, meta, dim, mp3) ==
    LET up == update_mp3_meta(entry, mp3)
        tag == IF IsSome(up.slot) THEN Unwrap(up.slot).tag ELSE None
        s == CASE expr.field = "Title" -> Unwrap(tag).title
               [] expr.field = "Artist" -> Unwrap(tag).artist
               [] expr.field = "Album" -> Unwrap(tag).album
               [] expr.field = "Genre" -> Unwrap(tag).genre
    IN Res(IsSome(tag) /\ StrCmpTag(expr.op, expr.val, expr.regex, s),
           meta, dim, up.slot, up.calls)

\* Field::Year (real entries)
ConformsYear(entry, expr, meta, dim, mp3) ==
    LET up == update_mp3_meta(entry, mp3)
        v == parse_int(expr.val)
        tag == IF IsSome(up.slot) THEN Unwrap(up.slot).tag ELSE None
    IN Res(IsSome(tag) /\ IsSome(v) /\ Unwrap(tag).year > 0
              /\ NumCmp(expr.op, Unwrap(tag).year, Unwrap(v)),
           meta, dim, up.slot, up.calls)

confirm_file_ext(entry, file_info, expr) ==
    LET file_name == IF IsSome(file_info) THEN Unwrap(file_info).name ELSE entry.name
    IN BoolCmp(expr.op, str_to_bool(expr.val), ExtFunc(expr.field, file_name))

\* the `match field` of conforms
ConformsLeaf(entry, file_info, expr, meta, dim, mp3, follow_symlinks) ==
    LET f == expr.field IN
    IF IsSome(file_info) /\ f \in VirtualFalseFields
    THEN Res(FALSE, meta, dim, mp3, <<>>)
    ELSE
    CASE f \in {"Name", "Path"} ->
            Res(ConformsName(entry, file_info, expr), meta, dim, mp3, <<>>)
      [] f \in {"Size", "FormattedSize"} ->
            ConformsSize(entry, file_info, expr, meta, dim, mp3, follow_symlinks)
      [] f \in {"Uid", "Gid"} -> ConformsUid(entry, expr, meta, dim, mp3, follow_symlinks)
      [] f \in {"User", "Group"} -> ConformsUser(entry, expr, meta, dim, mp3, follow_symlinks)
      [] f \in MetaBoolFields ->
            ConformsMetaBool(entry, file_info, expr, meta, dim, mp3, follow_symlinks)
      [] f \in ModeBoolFields ->
            confirm_file_mode(entry, file_info, expr, meta, dim, mp3, follow_symlinks)
      [] f = "Mode" -> ConformsMode(entry, file_info, expr, meta, dim, mp3, follow_symlinks)
      [] f = "IsHidden" ->
            Res(ConformsHidden(entry, file_info, expr), meta, dim, mp3, <<>>)
      [] f \in {"Created", "Accessed"} ->
            ConformsCreated(entry, expr, meta, dim, mp3, follow_symlinks)
      [] f = "Modified" ->
            ConformsModified(entry, file_info, expr, meta, dim, mp3, follow_symlinks)
      [] f = "HasXattrs" -> ConformsHasXattrs(entry, expr, meta, dim, mp3)
      [] f = "IsShebang" -> ConformsIsShebang(entry, expr, meta, dim, mp3)
      [] f \in DimFields -> ConformsDim(entry, expr, meta, dim, mp3)
      [] f \in {"Bitrate", "Freq"} -> ConformsFrame(entry, expr, meta, dim, mp3)
      [] f \in {"Title", "Artist", "Album", "Genre"} -> ConformsTag(entry, expr, meta, dim, mp3)
      [] f = "Year" -> ConformsYear(entry, expr, meta, dim, mp3)
      [] f \in ExtBoolFields ->
            Res(confirm_file_ext(entry, file_info, expr), meta, dim, mp3, <<>>)

\* a node that evaluates its right subtree whatever the left result
EvaluatesRightAlways(logical_op, left_result) == TRUE

\* LogicalOp::And evaluates the right subtree when the left holds, Or when it fails
EvaluatesRight(logical_op, left_result) ==
    IF logical_op = "And" THEN left_result ELSE ~left_result

(* conforms: the recursion over the tree, threading the three slots.  The  *)
(* ghost field `leaves` lists the leaves evaluated, in order.              *)
RECURSIVE conforms(_, _, _, _, _, _, _)
conforms(entry, file_info, expr, entry_meta, entry_dim, entry_mp3, follow_symlinks) ==
    IF expr.kind = "node"
    THEN LET l == conforms(entry, file_info, expr.left, entry_meta, entry_dim, entry_mp3,
                           follow_symlinks)
         IN IF ~EvaluatesRight(expr.logical_op, l.result)
            THEN [l EXCEPT !.result = (expr.logical_op = "Or")]
            ELSE LET r == conforms(entry, file_info, expr.right, l.meta, l.dim, l.mp3,
                                   follow_symlinks)
                 IN [result |-> IF expr.logical_op = "And"
                                THEN l.result /\ r.result
                                ELSE l.result \/ r.result,
                     meta |-> r.meta, dim |-> r.dim, mp3 |-> r.mp3,
                     calls |-> l.calls \o r.calls,
                     leaves |-> l.leaves \o r.leaves]
    ELSE LET x == ConformsLeaf(entry, file_info, expr, entry_meta, entry_dim, entry_mp3,
                               follow_symlinks)
         IN [result |-> x.result, meta |-> x.meta, dim |-> x.dim, mp3 |-> x.mp3,
             calls |-> x.calls, leaves |-> <<expr>>]

----------------------------------------------------------------------------
(* Projection columns (parser::ColumnExpr): a literal, a bare field, or a  *)
(* function applied to a child column.                                     *)

FieldCol(f) == [function |-> None, field |-> Some(f), val |-> None, left |-> None]
FnCol(fn, left) == [function |-> Some(fn), field |-> None, val |-> None, left |-> Some(left)]

AggregateFunctions == {"Min", "Max", "Avg", "Sum", "Count"}

\* ColumnExpr::has_aggregate_function
has_aggregate_function(col) ==
    IsSome(col.function) /\ Unwrap(col.function) \in AggregateFunctions

\* ColumnExpr::get_required_fields: the fields named anywhere in the column
RECURSIVE get_required_fields(_)
get_required_fields(col) ==
    (IF IsSome(col.field) THEN {Unwrap(col.field)} ELSE {})
      \cup (IF IsSome(col.left) THEN get_required_fields(Unwrap(col.left)) ELSE {})

\* Query::get_all_fields: the fields the projected columns need
get_all_fields(q) == UNION {get_required_fields(q.fields[i]) : i \in 1..Len(q.fields)}

\* to_lowercase on the strings of the model (the others are lower-case already)
ToLower(str) ==
    CASE str = "IsPipe" -> "ispipe" [] str = "IsCharacterDevice" -> "ischaracterdevice" [] str = "IsBlockDevice" -> "isblockdevice"
      [] str = "IsSocket" -> "issocket" [] str = "UserRead" -> "userread" [] str = "UserWrite" -> "userwrite"
      [] str = "UserExec" -> "userexec" [] str = "GroupRead" -> "groupread" [] str = "GroupWrite" -> "groupwrite"
      [] str = "GroupExec" -> "groupexec" [] str = "OtherRead" -> "otherread" [] str = "OtherWrite" -> "otherwrite"
      [] str = "OtherExec" -> "otherexec" [] str = "IsArchive" -> "isarchive" [] str = "IsAudio" -> "isaudio"
      [] str = "IsBook" -> "isbook" [] str = "IsDoc" -> "isdoc" [] str = "IsImage" -> "isimage"
      [] str = "IsSource" -> "issource" [] str = "IsVideo" -> "isvideo" [] str = "IsDir" -> "isdir"
      [] str = "IsFile" -> "isfile" [] str = "IsSymlink" -> "issymlink" [] str = "IsHidden" -> "ishidden"
      [] str = "HasXattrs" -> "hasxattrs" [] str = "IsShebang" -> "isshebang" [] str = "Bitrate" -> "bitrate"
      [] str = "Freq" -> "freq" [] str = "Title" -> "title" [] str = "Artist" -> "artist"
      [] str = "Album" -> "album" [] str = "Year" -> "year" [] str = "Genre" -> "genre"
      [] str = "Width" -> "width" [] str = "Height" -> "height" [] str = "Name" -> "name"
      [] str = "Path" -> "path" [] str = "Size" -> "size" [] str = "FormattedSize" -> "formattedsize"
      [] str = "Mode" -> "mode" [] str = "Uid" -> "uid" [] str = "Gid" -> "gid"
      [] str = "User" -> "user" [] str = "Group" -> "group" [] str = "Created" -> "created"
      [] str = "Accessed" -> "accessed" [] str = "Modified" -> "modified" [] str = "Lower" -> "lower"
      [] str = "Upper" -> "upper" [] str = "Max" -> "max" [] str = "Min" -> "min"
      [] str = "Avg" -> "avg" [] str = "Sum" -> "sum" [] str = "Count" -> "count"
      [] str = "Z.ZIP" -> "z.zip" [] str = "A.TXT" -> "a.txt" [] str = "ALICE" -> "alice"
      [] OTHER -> str

\* ColumnExpr::to_string for a bare field and for function(argument), at any depth
RECURSIVE ColumnLabel(_)
ColumnLabel(col) ==
    IF IsSome(col.function)
    THEN <<Unwrap(col.function)>> \o ColumnLabel(Unwrap(col.left))
    ELSE <<Unwrap(col.field)>>

\* the key of a column in file_map: to_string().to_lowercase()
ColumnKey(col) == [i \in 1..Len(ColumnLabel(col)) |-> ToLower(ColumnLabel(col)[i])]
FieldKey(f) == <<ToLower(f)>>

has_ordering(q) == q.ordering_fields /= <<>>
has_aggregate_column(q) == \E i \in 1..Len(q.fields) : has_aggregate_function(q.fields[i])
is_buffered(q) == has_ordering(q) \/ has_aggregate_column(q)

----------------------------------------------------------------------------
(* get_field_value: the rendered value of a field.  A rendered String is   *)
(* the sequence of the pieces format! puts together; the empty String is   *)
(* the empty sequence.  An archive member is rendered "[container] name".   *)

MemberLabel(container, member) == <<"[", container, "] ", member>>

\* humansize's BINARY rendering
FormatSize(n) == IF n < 1024 THEN <<NumStr(n), " B">> ELSE <<NumStr(n \div 1024), " KiB">>

\* chrono's "%Y-%m-%d %H:%M:%S" rendering of a timestamp
FormatTime(t) == <<"time", NumStr(t)>>

print_file_mode(attrs, file_info, field) ==
    IF IsSome(file_info)
    THEN IF IsSome(Unwrap(file_info).mode)
         THEN <<BoolStr(mode_func(field, Unwrap(Unwrap(file_info).mode)))>>
         ELSE <<>>
    ELSE IF IsSome(attrs) THEN <<BoolStr(mode_func(field, Unwrap(attrs).mode))>> ELSE <<>>

get_field_value(entry, file_info, mp3_info, attrs, dimensions, field) ==
    LET virtual == IsSome(file_info)
        info == Unwrap(file_info)
        a == Unwrap(attrs)
        tag == IF IsSome(mp3_info) THEN Unwrap(mp3_info).tag ELSE None
    IN
    CASE field = "Name" -> IF virtual THEN MemberLabel(entry.name, info.name) ELSE <<entry.name>>
      [] field = "Path" -> IF virtual THEN MemberLabel(entry.path, info.name) ELSE <<entry.path>>
      [] field = "Size" ->
            IF virtual THEN <<NumStr(info.size)>>
            ELSE IF IsSome(attrs) THEN <<NumStr(a.len)>> ELSE <<>>
      [] field = "FormattedSize" ->
            IF virtual THEN FormatSize(info.size)
            ELSE IF IsSome(attrs) THEN FormatSize(a.len) ELSE <<>>
      [] field = "IsDir" ->
            IF virtual THEN <<BoolStr(EndsWithSlash(info.name))>>
            ELSE IF IsSome(attrs) THEN <<BoolStr(a.is_dir)>> ELSE <<>>
      [] field = "IsFile" ->
            IF virtual THEN <<BoolStr(~EndsWithSlash(info.name))>>
            ELSE IF IsSome(attrs) THEN <<BoolStr(a.is_file)>> ELSE <<>>
      [] field = "IsSymlink" ->
            IF virtual THEN <<BoolStr(FALSE)>>
            ELSE IF IsSome(attrs) THEN <<BoolStr(a.is_symlink)>> ELSE <<>>
      [] field \in ModeBoolFields -> print_file_mode(attrs, file_info, field)
      [] field = "Mode" ->
            IF virtual
            THEN IF IsSome(info.mode) THEN <<format_mode(Unwrap(info.mode))>> ELSE <<>>
            ELSE IF IsSome(attrs) THEN <<format_mode(a.mode)>> ELSE <<>>
      [] field = "IsHidden" ->
            IF virtual THEN <<BoolStr(is_hidden(info.name, TRUE))>>
            ELSE <<BoolStr(is_hidden(entry.name, FALSE))>>
      [] field = "Uid" ->
            IF IsSome(attrs) /\ IsSome(a.uid) THEN <<NumStr(Unwrap(a.uid))>> ELSE <<>>
      [] field = "Gid" ->
            IF IsSome(attrs) /\ IsSome(a.gid) THEN <<NumStr(Unwrap(a.gid))>> ELSE <<>>
      [] field = "User" ->
            IF IsSome(attrs) /\ IsSome(a.uid) /\ IsSome(get_user_by_uid(Unwrap(a.uid)))
            THEN <<Unwrap(get_user_by_uid(Unwrap(a.uid)))>> ELSE <<>>
      [] field = "Group" ->
            IF IsSome(attrs) /\ IsSome(a.gid) /\ IsSome(get_group_by_gid(Unwrap(a.gid)))
            THEN <<Unwrap(get_group_by_gid(Unwrap(a.gid)))>> ELSE <<>>
      [] field = "Created" ->
            IF IsSome(attrs) /\ IsSome(a.created) THEN FormatTime(Unwrap(a.created)) ELSE <<>>
      [] field = "Accessed" ->
            IF IsSome(attrs) /\ IsSome(a.accessed) THEN FormatTime(Unwrap(a.accessed)) ELSE <<>>
      [] field = "Modified" ->
            IF virtual THEN FormatTime(info.modified)
            ELSE IF IsSome(attrs) /\ IsSome(a.modified)
                 THEN FormatTime(Unwrap(a.modified)) ELSE <<>>
      [] field = "HasXattrs" ->
            IF IsSome(entry.xattrs) THEN <<BoolStr(Unwrap(entry.xattrs))>> ELSE <<>>
      [] field = "IsShebang" -> <<BoolStr(entry.shebang)>>
      [] field = "Width" -> IF IsSome(dimensions) THEN <<NumStr(Unwrap(dimensions)[1])>> ELSE <<>>
      [] field = "Height" -> IF IsSome(dimensions) THEN <<NumStr(Unwrap(dimensions)[2])>> ELSE <<>>
      [] field = "Bitrate" -> IF IsSome(mp3_info) THEN <<NumStr(Unwrap(mp3_info).bitrate)>> ELSE <<>>
      [] field = "Freq" ->
            IF IsSome(mp3_info) THEN <<NumStr(Unwrap(mp3_info).sampling_freq)>> ELSE <<>>
      [] field = "Title" -> IF IsSome(tag) THEN <<Unwrap(tag).title>> ELSE <<>>
      [] field = "Artist" -> IF IsSome(tag) THEN <<Unwrap(tag).artist>> ELSE <<>>
      [] field = "Album" -> IF IsSome(tag) THEN <<Unwrap(tag).album>> ELSE <<>>
      [] field = "Year" -> IF IsSome(tag) THEN <<NumStr(Unwrap(tag).year)>> ELSE <<>>
      [] field = "Genre" -> IF IsSome(tag) THEN <<Unwrap(tag).genre>> ELSE <<>>
      [] field \in ExtBoolFields -> <<BoolStr(ExtFunc(field, entry.name))>>

----------------------------------------------------------------------------
(* Scalar functions of a projection (get_function_value).  The model has   *)
(* Lower and Upper; an aggregate function renders nothing per row.         *)

ToUpper(str) ==
    CASE str = "a.txt" -> "A.TXT" [] str = "z.zip" -> "Z.ZIP" [] str = "alice" -> "ALICE"
      [] OTHER -> str

RECURSIVE get_column_expr_value(_, _, _, _, _, _)
get_column_expr_value(entry, file_info, mp3_info, attrs, dimensions, column_expr) ==
    IF IsSome(column_expr.function)
    THEN \* get_function_value
         IF IsSome(column_expr.left)
         THEN LET function_arg == get_column_expr_value(entry, file_info, mp3_info, attrs,
                                                        dimensions, Unwrap(column_expr.left))
              IN CASE Unwrap(column_expr.function) = "Lower" ->
                        [i \in 1..Len(function_arg) |-> ToLower(function_arg[i])]
                   [] Unwrap(column_expr.function) = "Upper" ->
                        [i \in 1..Len(function_arg) |-> ToUpper(function_arg[i])]
                   [] OTHER -> <<>>
         ELSE <<>>
    ELSE IF IsSome(column_expr.field)
    THEN get_field_value(entry, file_info, mp3_info, attrs, dimensions,
                         Unwrap(column_expr.field))
    ELSE IF IsSome(column_expr.val) THEN <<Unwrap(column_expr.val)>>
    ELSE <<>>

----------------------------------------------------------------------------
(* Rendering of a row (format_results_row, format_results_row_end).        *)

\* a linear order of the keys of a map, standing for the HashMap's iteration order
RECURSIVE KeyOrder(_)
KeyOrder(keys) ==
    IF keys = {} THEN <<>>
    ELSE LET k == CHOOSE x \in keys : TRUE IN <<k>> \o KeyOrder(keys \ {k})

RECURSIVE JsonMembers(_, _)
JsonMembers(file_map, keys) ==
    IF keys = <<>> THEN <<>>
    ELSE <<"\"">> \o Head(keys) \o <<"\":\"">> \o file_map[Head(keys)] \o <<"\"">>
           \o (IF Len(keys) > 1 THEN <<",">> ELSE <<>>)
           \o JsonMembers(file_map, Tail(keys))

\* serde_json::to_string(&file_map)
JsonObject(file_map) ==
    <<"{">> \o JsonMembers(file_map, KeyOrder(DOMAIN file_map)) \o <<"}">>

\* csv::Writer::write_record: the fields joined by commas, then a newline
RECURSIVE CsvRecord(_)
CsvRecord(records) ==
    IF records = <<>> THEN <<"\n">>
    ELSE Head(records) \o (IF Len(records) > 1 THEN <<",">> ELSE <<>>) \o CsvRecord(Tail(records))

\* one column: the new output_value (records is pushed to by the caller for Csv)
format_results_row(output_format, record, output_value) ==
    CASE output_format = "Lines" -> output_value \o record \o <<"\n">>
      [] output_format = "List" -> output_value \o record \o <<"\\0">>
      [] output_format = "Tabs" -> output_value \o record \o <<"\t">>
      [] OTHER -> output_value

format_results_row_end(q, fnd, output_value, records, file_map) ==
    CASE q.output_format = "Tabs" -> output_value \o <<"\n">>
      [] q.output_format = "Csv" -> output_value \o CsvRecord(records)
      [] q.output_format = "Json" ->
            output_value \o (IF ~is_buffered(q) /\ fnd > 1 THEN <<",">> ELSE <<>>)
                         \o JsonObject(file_map)
      [] OTHER -> output_value

\* the loop over query.fields of check_file: every column formatted in turn
RECURSIVE FormatColumns(_, _, _)
FormatColumns(output_format, values, output_value) ==
    IF values = <<>> THEN output_value
    ELSE FormatColumns(output_format, Tail(values),
                       format_results_row(output_format, Head(values), output_value))

----------------------------------------------------------------------------
(* The ordered buffer (util::TopN keyed by util::Criteria).  A criterion   *)
(* is the tuple of the rendered values of the ordering fields with the     *)
(* per-field ascending flags.                                              *)

\* the strings of the model in lexicographic order
Collation == <<"", ".gitignore", ".hid", "/r1", "/r2", "[", "] ", "a.txt", "b.log", "c.log",
               "c.tmp", "d", "deep.txt", "e", "in.txt", "inner/x.txt", "inner/y.txt",
               "inner/z.txt", "k.txt", "n.log", "x.tmp", "y.zip", "z.zip">>

StrRank(str) ==
    LET m == {i \in 1..Len(Collation) : Collation[i] = str}
    IN IF m = {} THEN 0 ELSE CHOOSE i \in m : TRUE

Sign(a, b) == IF a < b THEN 0 - 1 ELSE IF a > b THEN 1 ELSE 0

RECURSIVE CmpStrings(_, _)
CmpStrings(a, b) ==
    IF a = <<>> \/ b = <<>> THEN Sign(Len(a), Len(b))
    ELSE IF StrRank(Head(a)) /= StrRank(Head(b)) THEN Sign(StrRank(Head(a)), StrRank(Head(b)))
    ELSE CmpStrings(Tail(a), Tail(b))

\* numeric-looking values compare numerically, all others as strings
CmpValues(a, b) ==
    LET na == IF Len(a) = 1 THEN parse_int(a[1]) ELSE None
        nb == IF Len(b) = 1 THEN parse_int(b[1]) ELSE None
    IN IF IsSome(na) /\ IsSome(nb) THEN Sign(Unwrap(na), Unwrap(nb)) ELSE CmpStrings(a, b)

\* Criteria::cmp: lexicographic over the ordering fields, asc = false inverts a field
RECURSIVE CmpCriteria(_, _, _)
CmpCriteria(a, b, asc) ==
    IF a = <<>> THEN 0
    ELSE LET c == CmpValues(Head(a), Head(b))
             d == IF Head(asc) THEN c ELSE 0 - c
         IN IF d /= 0 THEN d ELSE CmpCriteria(Tail(a), Tail(b), Tail(asc))

\* TopN::insert: keep the entries ascending by key (equal keys in insertion order);
\* beyond the limit the entry with the largest key is evicted
TopNInsert(buf, k, v, asc) ==
    LET n == Cardinality({i \in 1..Len(buf.entries) : CmpCriteria(buf.entries[i].k, k, asc) <= 0})
        grown == SubSeq(buf.entries, 1, n) \o <<[k |-> k, v |-> v]>>
                   \o SubSeq(buf.entries, n + 1, Len(buf.entries))
    IN [buf EXCEPT !.entries =
            IF IsSome(buf.limit) /\ Len(grown) > Unwrap(buf.limit)
            THEN SubSeq(grown, 1, Len(grown) - 1)
            ELSE grown]

\* TopN::values: the values in ascending key order
TopNValues(buf) == [i \in 1..Len(buf.entries) |-> buf.entries[i].v]

\* a buffer that holds one entry
SingleEntryBuffer(limit) == [limit |-> Some(1), entries |-> <<>>]

\* Searcher::new: the buffer is limitless when the query has no limit
NewOutputBuffer(limit) ==
    [limit |-> IF limit = 0 THEN None ELSE Some(limit), entries |-> <<>>]

----------------------------------------------------------------------------
(* check_file: evaluate the expression; on success count the entry, fetch   *)
(* what the projection needs, render the row, and print or buffer it.       *)

need_metadata(q) == \E f \in get_all_fields(q) : f /= "Name"
need_dim(q) == \E f \in get_all_fields(q) : f \in DimFields
need_mp3(q) == \E f \in get_all_fields(q) : f \in Mp3Fields

\* file_map after both insertion loops: a column's value replaces a field's under one key
FileMap(q, entry, file_info, mp3_info, attrs, dimensions) ==
    LET cols == {i \in 1..Len(q.fields) : TRUE}
        keys == {FieldKey(f) : f \in get_all_fields(q)} \cup {ColumnKey(q.fields[i]) : i \in cols}
    IN [key \in keys |->
          IF \E i \in cols : ColumnKey(q.fields[i]) = key
          THEN LET last == CHOOSE i \in cols : /\ ColumnKey(q.fields[i]) = key
                                               /\ \A j \in cols : ColumnKey(q.fields[j]) = key => j <= i
               IN get_column_expr_value(entry, file_info, mp3_info, attrs, dimensions, q.fields[last])
          ELSE LET f == CHOOSE f \in get_all_fields(q) : FieldKey(f) = key
               IN get_field_value(entry, file_info, mp3_info, attrs, dimensions, f)]

\* the conforms call of check_file, starting from three empty slots
CheckExpr(q, entry, file_info, follow_symlinks) ==
    IF IsSome(q.expr)
    THEN conforms(entry, file_info, Unwrap(q.expr), None, None, None, follow_symlinks)
    ELSE [result |-> TRUE, meta |-> None, dim |-> None, mp3 |-> None,
          calls |-> <<>>, leaves |-> <<>>]

\* three fetches made whatever the projection needs
FetchEverything(q, entry, c, follow_symlinks) ==
    LET um == update_meta(entry, c.meta, follow_symlinks)
        ud == update_img_dimensions(entry, c.dim)
        up == update_mp3_meta(entry, c.mp3)
    IN [attrs |-> um.slot, dimensions |-> ud.slot, mp3_info |-> up.slot,
        calls |-> um.calls \o ud.calls \o up.calls]

\* the three fetches of check_file after the expression passed
ProjectionFetch(q, entry, c, follow_symlinks) ==
    LET um == update_meta(entry, c.meta, follow_symlinks)
        ud == update_img_dimensions(entry, c.dim)
        up == update_mp3_meta(entry, c.mp3)
    IN [attrs |-> IF need_metadata(q) THEN um.slot ELSE None,
        dimensions |-> IF need_dim(q) THEN ud.slot ELSE None,
        mp3_info |-> IF need_mp3(q) THEN up.slot ELSE None,
        calls |-> (IF need_metadata(q) THEN um.calls ELSE <<>>)
                    \o (IF need_dim(q) THEN ud.calls ELSE <<>>)
                    \o (IF need_mp3(q) THEN up.calls ELSE <<>>)]

\* the reads get_field_value makes by itself while the row is rendered: is_shebang
\* opens the file, once in the loop over get_all_fields and once for every column
\* that is the field, or once for an ordering field the file_map does not hold
FieldReads(q) ==
    IF "IsShebang" \in get_all_fields(q)
    THEN <<"shebang">>
           \o [i \in 1..Cardinality({j \in 1..Len(q.fields) :
                                        q.fields[j].field = Some("IsShebang")}) |-> "shebang"]
    ELSE [i \in 1..Cardinality({j \in 1..Len(q.ordering_fields) :
                                  q.ordering_fields[j].field = Some("IsShebang")})
            |-> "shebang"]

(* The outcome of one check_file call on the Searcher state (fnd, ob, rob): *)
(* the new state, what was printed, and ghost fields describing the call.   *)

\* after `self.found += 1`: the row of a passing entry, printed or buffered; c is
\* the outcome of conforms and p the outcome of the three fetches
check_file_row(q, fnd, ob, rob, entry, file_info, c, p) ==
    LET file_map == FileMap(q, entry, file_info, p.mp3_info, p.attrs, p.dimensions)
        values == [i \in 1..Len(q.fields) |->
                     get_column_expr_value(entry, file_info, p.mp3_info, p.attrs,
                                           p.dimensions, q.fields[i])]
        criteria == [i \in 1..Len(q.ordering_fields) |->
                       IF ColumnKey(q.ordering_fields[i]) \in DOMAIN file_map
                       THEN file_map[ColumnKey(q.ordering_fields[i])]
                       ELSE get_field_value(entry, file_info, p.mp3_info, p.attrs, p.dimensions,
                                            Unwrap(q.ordering_fields[i].field))]
        output_value == format_results_row_end(q, fnd + 1,
                            FormatColumns(q.output_format, values, <<>>),
                            IF q.output_format = "Csv" THEN values ELSE <<>>, file_map)
    IN [passed |-> TRUE, found |-> fnd + 1,
        output_buffer |-> IF is_buffered(q)
                          THEN TopNInsert(ob, criteria, output_value, q.ordering_asc)
                          ELSE ob,
        raw_output_buffer |-> IF is_buffered(q) /\ has_aggregate_column(q)
                              THEN Append(rob, file_map) ELSE rob,
        print |-> IF is_buffered(q) THEN <<>> ELSE <<[kind |-> "row", text |-> output_value]>>,
        values |-> values, calls |-> c.calls, pcalls |-> p.calls \o FieldReads(q),
        leaves |-> c.leaves,
        meta |-> c.meta, dim |-> c.dim, mp3 |-> c.mp3]

\* `if !result { return }`, else the fetches and the row; c is the outcome of conforms
check_file_result(q, fnd, ob, rob, entry, file_info, follow_symlinks, c) ==
    IF ~c.result
    THEN [passed |-> FALSE, found |-> fnd, output_buffer |-> ob, raw_output_buffer |-> rob,
          print |-> <<>>, values |-> <<>>, calls |-> c.calls, pcalls |-> <<>>,
          leaves |-> c.leaves,
          meta |-> c.meta, dim |-> c.dim, mp3 |-> c.mp3]
    ELSE check_file_row(q, fnd, ob, rob, entry, file_info, c,
                        ProjectionFetch(q, entry, c, follow_symlinks))

check_file(q, fnd, ob, rob, entry, file_info, follow_symlinks) ==
    check_file_result(q, fnd, ob, rob, entry, file_info, follow_symlinks,
                      CheckExpr(q, entry, file_info, follow_symlinks))

----------------------------------------------------------------------------
(* get_aggregate_function_value: the reduction of raw_output_buffer for    *)
(* one aggregate column.  Avg divides by the number of rows and panics on  *)
(* an empty buffer: the result is then None.                               *)

\* `value.get(&field)` and `value.parse::<usize>()` for every row
ParsedValues(rob, key) ==
    [i \in 1..Len(rob) |->
        IF key \in DOMAIN rob[i] /\ Len(rob[i][key]) = 1 THEN parse_int(rob[i][key][1]) ELSE None]

\* `value.get(&field)` and `value.parse::<i64>()` for every row
ParsedSigned(rob, key) ==
    [i \in 1..Len(rob) |->
        IF key \in DOMAIN rob[i] /\ Len(rob[i][key]) = 1 THEN parse_i64(rob[i][key][1]) ELSE None]

RECURSIVE SumOf(_)
SumOf(vals) ==
    IF vals = <<>> THEN 0
    ELSE (IF IsSome(Head(vals)) THEN Unwrap(Head(vals)) ELSE 0) + SumOf(Tail(vals))

RECURSIVE MaxOf(_, _)
MaxOf(vals, max) ==
    IF vals = <<>> THEN max
    ELSE MaxOf(Tail(vals), IF IsSome(Head(vals)) /\ Unwrap(Head(vals)) > max
                           THEN Unwrap(Head(vals)) ELSE max)

RECURSIVE MinOf(_, _)
MinOf(vals, min) ==
    IF vals = <<>> THEN min
    ELSE MinOf(Tail(vals), IF IsSome(Head(vals)) /\ (Unwrap(Head(vals)) < min \/ min = 0 - 1)
                           THEN Unwrap(Head(vals)) ELSE min)

\* an average over the values that parse
AvgOfParsed(vals, rows) ==
    LET parsed == Cardinality({i \in 1..Len(vals) : IsSome(vals[i])})
    IN IF parsed = 0 THEN 0 ELSE SumOf(vals) \div parsed

\* `sum / self.raw_output_buffer.len()`, rows > 0
AvgOf(vals, rows) == SumOf(vals) \div rows

get_aggregate_function_value(rob, column_expr) ==
    LET key == IF IsSome(column_expr.field) THEN FieldKey(Unwrap(column_expr.field))
               ELSE IF IsSome(column_expr.left) /\ IsSome(Unwrap(column_expr.left).field)
               THEN FieldKey(Unwrap(Unwrap(column_expr.left).field))
               ELSE <<"">>
        vals == ParsedValues(rob, key)
        fn == IF IsSome(column_expr.function) THEN Unwrap(column_expr.function) ELSE ""
    IN CASE fn = "Min" -> Some(<<NumStr(MinOf(ParsedSigned(rob, key), 0 - 1))>>)
         [] fn = "Max" -> Some(<<NumStr(MaxOf(vals, 0))>>)
         [] fn = "Avg" -> IF Len(rob) = 0 THEN None ELSE Some(<<NumStr(AvgOf(vals, Len(rob)))>>)
         [] fn = "Sum" -> Some(<<NumStr(SumOf(vals))>>)
         [] fn = "Count" -> Some(<<NumStr(Len(rob))>>)
         [] OTHER -> IF IsSome(column_expr.val) THEN Some(<<Unwrap(column_expr.val)>>)
                     ELSE Some(<<>>)

----------------------------------------------------------------------------
(* The file system the walk runs over: two roots.  /r1 holds a .gitignore  *)
(* excluding *.log, a ZIP archive with two members, and a directory d with *)
(* its own .gitignore (excluding *.tmp) and a subdirectory e.  /r2 holds a *)
(* .gitignore excluding *.tmp and *.zip, a directory c.tmp with one file   *)
(* and a ZIP archive with one member.  /z.zip is a ZIP archive with the    *)
(* single member inner/x.txt.  /e holds a script with a shebang, an image, *)
(* an audio file with tags and a ZIP archive whose member is an image.     *)
(* /f is where the file system fails: the directory /f/d cannot be listed, *)
(* one item of the listing of /f is an error, and the stat of the          *)
(* directory /f/e fails, and so does the stat of the directory /gone.      *)
(* /s holds a.txt and the symbolic link up to /s itself; the OS resolves   *)
(* at most MaxLinks symbolic links in one path and fails beyond (ELOOP):   *)
(* the paths are listed down to four links.                                *)

\* the symbolic links the OS follows while it resolves one path (MAXSYMLINKS)
MaxLinks == 2

\* the symbolic links in a path below /s
LinkCount(path) ==
    CASE path \in {"/s/up", "/s/up/a.txt"} -> 1
      [] path \in {"/s/up/up", "/s/up/up/a.txt"} -> 2
      [] path \in {"/s/up/up/up", "/s/up/up/up/a.txt"} -> 3
      [] path = "/s/up/up/up/up" -> 4
      [] OTHER -> 0

\* a symbolic link to a directory: the stat of the link itself, and the stat of
\* the directory it resolves to, an error when the path holds more than MaxLinks
\* links
SymLink(name, path, followed) ==
    [DirEntry(name, path, Some(Metadata(2, 41471, 1000, Some(3))), None, None, Some(FALSE),
              FALSE)
       EXCEPT !.fmeta = IF LinkCount(path) <= MaxLinks THEN followed ELSE None]

\* the tags of the audio file
SongTag == Mp3Tag("Song", "Band", "Disc", 1999, "Rock")

\* fs::read_dir: the children in the order the OS reports them
ReadDir(dir) ==
    CASE dir = "/r1" -> <<"/r1/.gitignore", "/r1/a.txt", "/r1/z.zip", "/r1/d", "/r1/b.log">>
      [] dir = "/r1/d" -> <<"/r1/d/.gitignore", "/r1/d/c.log", "/r1/d/x.tmp", "/r1/d/e">>
      [] dir = "/r1/d/e" -> <<"/r1/d/e/deep.txt", "/r1/d/e/n.log">>
      [] dir = "/r2" -> <<"/r2/.gitignore", "/r2/c.tmp", "/r2/y.zip", "/r2/k.txt">>
      [] dir = "/r2/c.tmp" -> <<"/r2/c.tmp/in.txt">>
      [] dir = "/e" -> <<"/e/run.py", "/e/pic.png", "/e/song.mp3", "/e/p.zip">>
      [] dir = "/f" -> <<"/f/a.txt", "/f/d", "/f/?", "/f/e", "/f/k.txt">>
      [] dir = "/s" -> <<"/s/a.txt", "/s/up">>
      [] dir = "/s/up" -> <<"/s/up/a.txt", "/s/up/up">>
      [] dir = "/s/up/up" -> <<"/s/up/up/a.txt", "/s/up/up/up">>
      [] dir = "/s/up/up/up" -> <<"/s/up/up/up/a.txt", "/s/up/up/up/up">>
      [] OTHER -> <<>>

\* fs::read_dir(dir) is an Err
ReadDirFails(dir) == dir = "/f/d"

\* the item of the listing is an Err
EntryFails(path) == path = "/f/?"

\* the entries of the directories that cannot be entered
Unlisted(dir) ==
    CASE dir = "/f/d" -> <<"/f/d/in.txt">>
      [] dir = "/f/e" -> <<"/f/e/deep.txt">>
      [] OTHER -> <<>>

EntryAt(path) ==
    CASE path = "/r1" -> Directory("r1", path, 0)
      [] path = "/r2" -> Directory("r2", path, 0)
      [] path = "/z.zip" -> PlainFile("z.zip", path, 50)
      [] path = "/e" -> Directory("e", path, 0)
      [] path = "/e/run.py" ->
            DirEntry("run.py", path, Some(Metadata(20, 33261, 0, None)), None, None,
                     Some(TRUE), TRUE)
      [] path = "/e/pic.png" ->
            DirEntry("pic.png", path, Some(Metadata(30, 33188, 1000, Some(3))),
                     Some(<<20, 10>>), None, Some(FALSE), FALSE)
      [] path = "/e/song.mp3" ->
            DirEntry("song.mp3", path, Some(Metadata(50, 33188, 1000, Some(3))),
                     None, Some(MP3Metadata(128, 44100, Some(SongTag))), Some(FALSE), FALSE)
      [] path = "/e/p.zip" -> PlainFile("p.zip", path, 60)
      [] path = "/f" -> Directory("f", path, 0)
      [] path = "/f/a.txt" -> PlainFile("a.txt", path, 10)
      [] path = "/f/d" -> Directory("d", path, 1024)
      [] path = "/f/e" -> DirEntry("e", path, None, None, None, None, FALSE)
      [] path = "/f/k.txt" -> PlainFile("k.txt", path, 128)
      [] path = "/gone" -> DirEntry("gone", path, None, None, None, None, FALSE)
      [] path = "/s" -> Directory("s", path, 0)
      [] path \in {"/s/a.txt", "/s/up/a.txt", "/s/up/up/a.txt", "/s/up/up/up/a.txt"} ->
            PlainFile("a.txt", path, 10)
      [] path \in {"/s/up", "/s/up/up", "/s/up/up/up", "/s/up/up/up/up"} ->
            SymLink("up", path, Directory("s", "/s", 0).fmeta)
      [] path = "/r1/.gitignore" -> PlainFile(".gitignore", path, 5)
      [] path = "/r1/a.txt" -> PlainFile("a.txt", path, 10)
      [] path = "/r1/z.zip" -> PlainFile("z.zip", path, 50)
      [] path = "/r1/d" -> Directory("d", path, 1024)
      [] path = "/r1/b.log" -> PlainFile("b.log", path, 20)
      [] path = "/r1/d/.gitignore" -> PlainFile(".gitignore", path, 0)
      [] path = "/r1/d/c.log" -> PlainFile("c.log", path, 30)
      [] path = "/r1/d/x.tmp" -> PlainFile("x.tmp", path, 40)
      [] path = "/r1/d/e" -> Directory("e", path, 2048)
      [] path = "/r1/d/e/deep.txt" -> PlainFile("deep.txt", path, 3)
      [] path = "/r1/d/e/n.log" -> PlainFile("n.log", path, 7)
      [] path = "/r2/.gitignore" -> PlainFile(".gitignore", path, 6)
      [] path = "/r2/c.tmp" -> Directory("c.tmp", path, 4096)
      [] path = "/r2/c.tmp/in.txt" -> PlainFile("in.txt", path, 9)
      [] path = "/r2/y.zip" -> PlainFile("y.zip", path, 60)
      [] path = "/r2/k.txt" -> PlainFile("k.txt", path, 128)

\* PathBuf::pop: the parent of a path, None at the top
Parent(path) ==
    CASE path \in {"/r1", "/r2", "/z.zip", "/e", "/f", "/gone"} -> Some("/")
      [] path \in {"/f/a.txt", "/f/d", "/f/e", "/f/k.txt"} -> Some("/f")
      [] path = "/s" -> Some("/")
      [] path \in {"/s/a.txt", "/s/up"} -> Some("/s")
      [] path \in {"/s/up/a.txt", "/s/up/up"} -> Some("/s/up")
      [] path \in {"/s/up/up/a.txt", "/s/up/up/up"} -> Some("/s/up/up")
      [] path \in {"/s/up/up/up/a.txt", "/s/up/up/up/up"} -> Some("/s/up/up/up")
      [] path \in {"/e/run.py", "/e/pic.png", "/e/song.mp3", "/e/p.zip"} -> Some("/e")
      [] path = "/r1/d" -> Some("/r1")
      [] path = "/r1/d/e" -> Some("/r1/d")
      [] path \in {"/r1/.gitignore", "/r1/a.txt", "/r1/z.zip", "/r1/b.log"} -> Some("/r1")
      [] path \in {"/r1/d/.gitignore", "/r1/d/c.log", "/r1/d/x.tmp"} -> Some("/r1/d")
      [] path \in {"/r1/d/e/deep.txt", "/r1/d/e/n.log"} -> Some("/r1/d/e")
      [] path \in {"/r2/.gitignore", "/r2/c.tmp", "/r2/y.zip", "/r2/k.txt"} -> Some("/r2")
      [] path = "/r2/c.tmp/in.txt" -> Some("/r2/c.tmp")
      [] OTHER -> None

\* parse_gitignore of dir/.gitignore when that is a file: the compiled filters
GitignoreFile(dir) ==
    CASE dir = "/r1" -> Some(<<"*.log">>)
      [] dir = "/r1/d" -> Some(<<"*.tmp">>)
      [] dir = "/r2" -> Some(<<"*.tmp", "*.zip">>)
      [] OTHER -> None

\* zip::ZipArchive over the file at path: its members, None when it cannot be opened
ZipMembers(path) ==
    CASE path = "/r1/z.zip" -> Some(<<FileInfo("inner/x.txt", 1, Some(33188), 5),
                                      FileInfo("inner/y.txt", 2, None, 5)>>)
      [] path = "/r2/y.zip" -> Some(<<FileInfo("inner/z.txt", 4, Some(33188), 5)>>)
      [] path = "/z.zip" -> Some(<<FileInfo("inner/x.txt", 1, Some(33188), 5)>>)
      [] path = "/e/p.zip" -> Some(<<FileInfo("inner/p.png", 20, Some(33188), 5)>>)
      [] OTHER -> None

\* one compiled filter against a path
FilterMatches(filter, path, is_dir) ==
    CASE filter = "*.log" -> LowerExt(EntryAt(path).name) = ".log"
      [] filter = "*.tmp" -> LowerExt(EntryAt(path).name) = ".tmp"
      [] filter = "*.zip" -> LowerExt(EntryAt(path).name) = ".zip"
      [] OTHER -> FALSE

\* gitignore::matches_gitignore_filter: some filter of the list matches
matches_gitignore_filter(gitignore_filters, path, is_dir) ==
    /\ IsSome(gitignore_filters)
    /\ \E i \in 1..Len(Unwrap(gitignore_filters)) :
          FilterMatches(Unwrap(gitignore_filters)[i], path, is_dir)

\* the upward loop of get_gitignore_filters: filters of mapped ancestors are prepended
RECURSIVE AncestorFilters(_, _, _)
AncestorFilters(gm, path, result) ==
    IF ~IsSome(Parent(path)) THEN result
    ELSE LET up == Unwrap(Parent(path))
         IN AncestorFilters(gm, up, IF up \in DOMAIN gm THEN gm[up] \o result ELSE result)

get_gitignore_filters(gm, dir) ==
    IF dir \in DOMAIN gm THEN gm[dir] ELSE AncestorFilters(gm, dir, <<>>)

----------------------------------------------------------------------------
(* visit_dirs.  An activation is a frame [dir, depth, i, ai, filters]: i is *)
(* the index of the next child of dir, ai > 0 the index of the next member *)
(* of the archive at child i (0 outside the archive loop), filters the     *)
(* gitignore_filters computed on entry.                                    *)

InWindow(min_depth, max_depth, depth) ==
    /\ (min_depth = 0 \/ (min_depth > 0 /\ depth >= min_depth))
    /\ (max_depth = 0 \/ (max_depth > 0 /\ depth <= max_depth))

\* util::path_error_message: the error is printed with the path
path_error_message(path) == <<[kind |-> "error", text |-> <<path>>]>>

\* the head of visit_dirs up to read_dir: the frame to run (none when the body is
\* skipped), the gitignore_map afterwards and the error printed
VisitDirsEnter(root, dir, depth, gm) ==
    LET metadata == IF root.symlinks THEN EntryAt(dir).fmeta ELSE EntryAt(dir).lmeta
        gm2 == IF root.gitignore /\ IsSome(GitignoreFile(dir))
               THEN [d \in DOMAIN gm \cup {dir} |->
                        IF d = dir THEN Unwrap(GitignoreFile(dir)) ELSE gm[d]]
               ELSE gm
        filters == IF root.gitignore THEN Some(get_gitignore_filters(gm2, dir)) ELSE None
    IN IF ~InWindow(root.min_depth, root.max_depth, depth)
       THEN [gm |-> gm, frames |-> <<>>, errors |-> <<>>]
       ELSE IF ~IsSome(metadata)
       THEN [gm |-> gm, frames |-> <<>>, errors |-> path_error_message(dir)]
       ELSE IF ~Unwrap(metadata).is_dir
       THEN [gm |-> gm, frames |-> <<>>, errors |-> <<>>]
       ELSE IF ReadDirFails(dir)
       THEN [gm |-> gm2, frames |-> <<>>, errors |-> path_error_message(dir)]
       ELSE [gm |-> gm2,
             frames |-> <<[dir |-> dir, depth |-> depth, i |-> 1, ai |-> 0,
                           filters |-> filters]>>,
             errors |-> <<>>]

Root == query.roots[root_idx]
Top == stack[Len(stack)]
Below == SubSeq(stack, 1, Len(stack) - 1)
InLoop == pc = "roots" /\ stack /= <<>>
AtEntry == InLoop /\ Top.ai = 0 /\ Top.i <= Len(ReadDir(Top.dir))
\* the children taken in the reverse of the order read_dir reports them
LastChildFirst == ReadDir(Top.dir)[Len(ReadDir(Top.dir)) + 1 - Top.i]
CurPath == ReadDir(Top.dir)[Top.i]
CurEntry == EntryAt(CurPath)

\* a test that lets one more entry through
StreamLimitExceeded(q, fnd) == ~is_buffered(q) /\ q.limit > 0 /\ q.limit < fnd

\* `!self.is_buffered() && self.query.limit > 0 && self.query.limit <= self.found`
StreamLimitReached(q, fnd) == ~is_buffered(q) /\ q.limit > 0 /\ q.limit <= fnd

\* an archive loop that never tests the limit
ArchiveLimitIgnored(q, fnd) == FALSE

\* `self.query.limit > 0 && self.query.limit <= self.found` of the archive loop
ArchiveLimitReached(q, fnd) == q.limit > 0 /\ q.limit <= fnd

\* the members enumerated for the current child: none unless archives is on, the
\* name is a ZIP name and the archive opens
ArchiveOf(root, path) ==
    IF root.archives /\ is_zip_archive(path) /\ IsSome(ZipMembers(path))
    THEN Unwrap(ZipMembers(path)) ELSE <<>>

\* the state change of one check_file call whose outcome is cf, with the log entry
\* of the call; `after` is what the caller prints after the call
ApplyCheckFile(cf, entry, file_info, depth, after) ==
    /\ found' = cf.found
    /\ output_buffer' = cf.output_buffer
    /\ raw_output_buffer' = cf.raw_output_buffer
    /\ printed' = printed \o cf.print \o after
    /\ checked' = Append(checked, [root |-> root_idx, path |-> entry.path,
                                   member |-> IF IsSome(file_info)
                                              THEN Some(Unwrap(file_info).name) ELSE None,
                                   depth |-> depth, passed |-> cf.passed])
    /\ cf_entry' = Some(entry)
    /\ cf_info' = file_info
    /\ cf_res' = Some([passed |-> cf.passed, values |-> cf.values, calls |-> cf.calls,
                       pcalls |-> cf.pcalls, leaves |-> cf.leaves, meta |-> cf.meta,
                       dim |-> cf.dim, mp3 |-> cf.mp3])

\* `self.check_file(&entry, &file_info, need_metadata, need_dim, need_mp3, follow_symlinks, t)`
RunCheckFile(entry, file_info, follow_symlinks, depth, after) ==
    ApplyCheckFile(check_file(query, found, output_buffer, raw_output_buffer, entry,
                              file_info, follow_symlinks),
                   entry, file_info, depth, after)

\* what the recursion into the current child prints before its loop: nothing when
\* path.is_dir() is false, when the child is outside the depth window or can be
\* listed
RecurseErrors ==
    IF IsSome(CurEntry.fmeta) /\ Unwrap(CurEntry.fmeta).is_dir
    THEN VisitDirsEnter(Root, CurPath, Top.depth + 1, gitignore_map).errors
    ELSE <<>>

\* `if path.is_dir() { self.visit_dirs(&path, .., depth + 1, ..) }`, then the next child
Recurse ==
    LET next == [Top EXCEPT !.i = Top.i + 1, !.ai = 0]
        isdir == IsSome(CurEntry.fmeta) /\ Unwrap(CurEntry.fmeta).is_dir
        call == VisitDirsEnter(Root, CurPath, Top.depth + 1, gitignore_map)
    IN IF isdir
       THEN /\ stack' = Below \o <<next>> \o call.frames
            /\ gitignore_map' = call.gm
       ELSE /\ stack' = Below \o <<next>>
            /\ gitignore_map' = gitignore_map

\* print_results_start
Start ==
    /\ pc = "start"
    /\ pc' = "roots"
    /\ printed' = IF query.output_format = "Json"
                  THEN Append(printed, [kind |-> "start", text |-> <<"[">>]) ELSE printed
    /\ UNCHANGED <<query, found, output_buffer, raw_output_buffer, gitignore_map, root_idx,
                   stack, checked, cf_entry, cf_info, cf_res>>

\* `for root in roots`: the call of visit_dirs on the next root at depth 1
NextRoot ==
    /\ pc = "roots" /\ stack = <<>> /\ root_idx < Len(query.roots)
    /\ LET r == query.roots[root_idx + 1]
           call == VisitDirsEnter(r, r.path, 1, gitignore_map)
       IN /\ stack' = call.frames
          /\ gitignore_map' = call.gm
          /\ printed' = printed \o call.errors
    /\ root_idx' = root_idx + 1
    /\ UNCHANGED <<query, found, output_buffer, raw_output_buffer, checked, pc,
                   cf_entry, cf_info, cf_res>>

\* the `break` at the head of the loop over the children
LimitBreak ==
    /\ AtEntry /\ StreamLimitReached(query, found)
    /\ stack' = Below
    /\ UNCHANGED <<query, found, output_buffer, raw_output_buffer, gitignore_map, root_idx,
                   printed, checked, pc, cf_entry, cf_info, cf_res>>

\* a walk that applies no filter
NothingIgnored == FALSE

\* the negation of `!apply_gitignore || (apply_gitignore && !matches_gitignore_filter(..))`
EntryIgnored ==
    /\ Root.gitignore
    /\ matches_gitignore_filter(Top.filters, CurPath,
                                IsSome(CurEntry.fmeta) /\ Unwrap(CurEntry.fmeta).is_dir)

\* a child matched by the gitignore filters is passed over
SkipIgnored ==
    /\ AtEntry /\ ~StreamLimitReached(query, found)
    /\ ~EntryFails(CurPath)
    /\ EntryIgnored
    /\ stack' = Below \o <<[Top EXCEPT !.i = Top.i + 1]>>
    /\ UNCHANGED <<query, found, output_buffer, raw_output_buffer, gitignore_map, root_idx,
                   printed, checked, pc, cf_entry, cf_info, cf_res>>

\* `Err(err) => path_error_message(dir, err, t)`: the item of the listing is an
\* error, reported with the directory
EntryError ==
    /\ AtEntry /\ ~StreamLimitReached(query, found)
    /\ EntryFails(CurPath)
    /\ printed' = printed \o path_error_message(Top.dir)
    /\ stack' = Below \o <<[Top EXCEPT !.i = Top.i + 1]>>
    /\ UNCHANGED <<query, found, output_buffer, raw_output_buffer, gitignore_map, root_idx,
                   checked, pc, cf_entry, cf_info, cf_res>>

\* check_file on the child; then its archive loop, or the recursion when it has none
VisitEntry ==
    /\ AtEntry /\ ~StreamLimitReached(query, found)
    /\ ~EntryFails(CurPath)
    /\ ~EntryIgnored
    /\ RunCheckFile(CurEntry, None, Root.symlinks, Top.depth,
                    IF ArchiveOf(Root, CurPath) /= <<>> THEN <<>> ELSE RecurseErrors)
    /\ IF ArchiveOf(Root, CurPath) /= <<>>
       THEN /\ stack' = Below \o <<[Top EXCEPT !.ai = 1]>>
            /\ gitignore_map' = gitignore_map
       ELSE Recurse
    /\ UNCHANGED <<query, root_idx, pc>>

\* one iteration of the loop over the members of the archive
ArchiveMember ==
    /\ InLoop /\ Top.ai > 0
    /\ ~ArchiveLimitReached(query, found)
    /\ RunCheckFile(CurEntry, Some(ArchiveOf(Root, CurPath)[Top.ai]), FALSE, Top.depth,
                    IF Top.ai < Len(ArchiveOf(Root, CurPath)) THEN <<>> ELSE RecurseErrors)
    /\ IF Top.ai < Len(ArchiveOf(Root, CurPath))
       THEN /\ stack' = Below \o <<[Top EXCEPT !.ai = Top.ai + 1]>>
            /\ gitignore_map' = gitignore_map
       ELSE Recurse
    /\ UNCHANGED <<query, root_idx, pc>>

\* the `break` at the head of the loop over the members
ArchiveBreak ==
    /\ InLoop /\ Top.ai > 0
    /\ ArchiveLimitReached(query, found)
    /\ Recurse
    /\ printed' = printed \o RecurseErrors
    /\ UNCHANGED <<query, found, output_buffer, raw_output_buffer, root_idx, checked,
                   pc, cf_entry, cf_info, cf_res>>

\* the children are exhausted: visit_dirs returns
Return ==
    /\ InLoop /\ Top.ai = 0 /\ Top.i > Len(ReadDir(Top.dir))
    /\ stack' = Below
    /\ UNCHANGED <<query, found, output_buffer, raw_output_buffer, gitignore_map, root_idx,
                   printed, checked, pc, cf_entry, cf_info, cf_res>>

\* the single row of an aggregate query: None when a column's reduction panics
AggregateRow(q, rob) ==
    LET vals == [i \in 1..Len(q.fields) |-> get_aggregate_function_value(rob, q.fields[i])]
        recs == [i \in 1..Len(q.fields) |-> Unwrap(vals[i])]
        file_map == [key \in {ColumnKey(q.fields[i]) : i \in 1..Len(q.fields)} |->
                        recs[CHOOSE i \in 1..Len(q.fields) :
                               /\ ColumnKey(q.fields[i]) = key
                               /\ \A j \in 1..Len(q.fields) :
                                     ColumnKey(q.fields[j]) = key => j <= i]]
    IN IF \E i \in 1..Len(q.fields) : ~IsSome(vals[i]) THEN None
       ELSE Some(format_results_row_end(q, 0, FormatColumns(q.output_format, recs, <<>>),
                                        IF q.output_format = "Csv" THEN recs ELSE <<>>,
                                        file_map))

\* the drain of output_buffer: the pieces, with a "," print between them for Json
RECURSIVE Drain(_, _, _)
Drain(output_format, pieces, first) ==
    IF pieces = <<>> THEN <<>>
    ELSE (IF output_format = "Json" /\ ~first
          THEN <<[kind |-> "sep", text |-> <<",">>]>> ELSE <<>>)
           \o <<[kind |-> "row", text |-> Head(pieces)]>>
           \o Drain(output_format, Tail(pieces), FALSE)

ResultsEnd(q) ==
    IF q.output_format = "Json" THEN <<[kind |-> "end", text |-> <<"]">>]>> ELSE <<>>

\* list_search_results after the loop over the roots
Finish ==
    /\ pc = "roots" /\ stack = <<>> /\ root_idx = Len(query.roots)
    /\ IF has_aggregate_column(query)
       THEN IF IsSome(AggregateRow(query, raw_output_buffer))
            THEN /\ printed' = printed
                        \o <<[kind |-> "row", text |-> Unwrap(AggregateRow(query, raw_output_buffer))]>>
                        \o ResultsEnd(query)
                 /\ pc' = "done"
            ELSE /\ printed' = printed
                 /\ pc' = "panicked"
       ELSE /\ printed' = printed
                  \o (IF is_buffered(query)
                      THEN Drain(query.output_format, TopNValues(output_buffer), TRUE)
                      ELSE <<>>)
                  \o ResultsEnd(query)
            /\ pc' = "done"
    /\ UNCHANGED <<query, found, output_buffer, raw_output_buffer, gitignore_map, root_idx,
                   stack, checked, cf_entry, cf_info, cf_res>>

----------------------------------------------------------------------------
(* The queries of the walk.  A query streams, orders by size (ascending or *)
(* descending) or aggregates; every root of a query carries the same       *)
(* options.                                                                *)

RootOf(path, min_depth, max_depth, archives, gitignore) ==
    [path |-> path, min_depth |-> min_depth, max_depth |-> max_depth,
     archives |-> archives, symlinks |-> FALSE, gitignore |-> gitignore]

QueryOf(fields, roots, expr, ordering_fields, ordering_asc, limit, output_format) ==
    [fields |-> fields, roots |-> roots, expr |-> expr,
     ordering_fields |-> ordering_fields, ordering_asc |-> ordering_asc,
     limit |-> limit, output_format |-> output_format]

WalkExprs == {None, Some(Pred("Size", "Gt", "5")),
              Some(Node("Or", Pred("Name", "Eq", "a.txt"), Pred("Size", "Lt", "3")))}

WalkModes == {"stream", "asc", "desc", "agg", "avg", "sums"}

\* the projection of a mode: the aggregate modes are max(size), avg(size) and
\* count(name), sum(size), min(size)
WalkColumns(mode) ==
    CASE mode = "agg" -> <<FnCol("Max", FieldCol("Size"))>>
      [] mode = "avg" -> <<FnCol("Avg", FieldCol("Size"))>>
      [] mode = "sums" -> <<FnCol("Count", FieldCol("Name")), FnCol("Sum", FieldCol("Size")),
                            FnCol("Min", FieldCol("Size"))>>
      [] OTHER -> <<FieldCol("Name"), FieldCol("Size")>>
WalkRoots == {<<"/r1">>, <<"/r1", "/r2">>}
WalkFormats == {"Tabs", "Json"}

WalkQuery(mode, paths, mn, mx, ar, gi, e, limit, fmt) ==
    QueryOf(WalkColumns(mode),
            [i \in 1..Len(paths) |-> RootOf(paths[i], mn, mx, ar, gi)],
            e,
            IF mode \in {"asc", "desc"} THEN <<FieldCol("Size")>> ELSE <<>>,
            IF mode \in {"asc", "desc"} THEN <<mode = "asc">> ELSE <<>>,
            limit, fmt)

\* `name from <path> where is_archive = true archives`
ArchivesQuery(path) ==
    QueryOf(<<FieldCol("Name")>>, <<RootOf(path, 0, 0, TRUE, FALSE)>>,
            Some(Pred("IsArchive", "Eq", "true")), <<>>, <<>>, 0, "Tabs")

\* queries whose root is a ZIP archive, and the same over a directory holding one
ArchiveRootQueries ==
    {ArchivesQuery("/z.zip"), ArchivesQuery("/r1"),
     [ArchivesQuery("/z.zip") EXCEPT !.expr = None]}

\* expressions and projections over /e that do and do not name the fields read from
\* an image, an audio file or the first bytes of a file; in the And and Or nodes
\* the right predicate is skipped for some entries
SourceExprs ==
    {None, Some(Pred("Width", "Gte", "20")), Some(Pred("Bitrate", "Eq", "128")),
     Some(Pred("IsShebang", "Eq", "true")), Some(Pred("Size", "Gt", "20")),
     Some(Node("And", Pred("Size", "Gt", "30"), Pred("Width", "Gte", "20"))),
     Some(Node("Or", Pred("Size", "Gt", "30"), Pred("Bitrate", "Eq", "128"))),
     Some(Node("And", Pred("Size", "Gt", "20"), Pred("IsShebang", "Eq", "true")))}

SourceColumns ==
    {<<FieldCol("Name")>>, <<FieldCol("Name"), FieldCol("Size")>>,
     <<FieldCol("Name"), FieldCol("Width")>>, <<FieldCol("Title")>>,
     <<FieldCol("IsShebang")>>}

SourceQueries ==
    {QueryOf(cols, <<RootOf("/e", 0, 0, ar, FALSE)>>, e, <<>>, <<>>, 0, "Tabs") :
       cols \in SourceColumns, ar \in BOOLEAN, e \in SourceExprs}

Init ==
    /\ \/ \E mode \in WalkModes, paths \in WalkRoots, mn \in 0..MaxDepthOpt,
             mx \in 0..MaxDepthOpt, ar \in BOOLEAN, gi \in BOOLEAN, e \in WalkExprs,
             limit \in 0..MaxLimit, fmt \in WalkFormats :
               query = WalkQuery(mode, paths, mn, mx, ar, gi, e, limit, fmt)
       \/ query \in ArchiveRootQueries
       \/ query \in SourceQueries
    /\ found = 0
    /\ output_buffer = NewOutputBuffer(query.limit)
    /\ raw_output_buffer = <<>>
    /\ gitignore_map = <<>>
    /\ root_idx = 0
    /\ stack = <<>>
    /\ printed = <<>>
    /\ checked = <<>>
    /\ pc = "start"
    /\ cf_entry = None
    /\ cf_info = None
    /\ cf_res = None

Next ==
    \/ Start
    \/ NextRoot
    \/ LimitBreak
    \/ SkipIgnored
    \/ VisitEntry
    \/ ArchiveMember
    \/ ArchiveBreak
    \/ Return
    \/ Finish

Spec == Init /\ [][Next]_vars

----------------------------------------------------------------------------
(* The walk over a file system that fails: the roots are /gone, whose stat *)
(* fails, and /f, followed or preceded by /r1.                             *)

FaultRoots == {<<"/gone", "/f">>, <<"/f", "/r1">>, <<"/f">>}

FaultQueries ==
    {WalkQuery(mode, paths, 0, mx, ar, gi, None, limit, "Tabs") :
       mode \in {"stream", "asc"}, paths \in FaultRoots, mx \in {0, 1}, ar \in BOOLEAN,
       gi \in BOOLEAN, limit \in 0..MaxLimit}

InitFault ==
    /\ query \in FaultQueries
    /\ found = 0
    /\ output_buffer = NewOutputBuffer(query.limit)
    /\ raw_output_buffer = <<>>
    /\ gitignore_map = <<>>
    /\ root_idx = 0
    /\ stack = <<>>
    /\ printed = <<>>
    /\ checked = <<>>
    /\ pc = "start"
    /\ cf_entry = None
    /\ cf_info = None
    /\ cf_res = None

NextFault == Next \/ EntryError

SpecFault == InitFault /\ [][NextFault]_vars

----------------------------------------------------------------------------
(* The walk to its end, over the roots /s (which holds a symbolic link to  *)
(* itself) and /r1, with symlinks followed or not and no depth window.     *)
(* The process is one thread that runs until list_search_results returns   *)
(* or panics: a step that can be taken is taken.                           *)

\* a query of the walk whose roots follow symlinks or not
LiveQuery(mode, paths, ar, gi, sl, e, limit) ==
    LET q == WalkQuery(mode, paths, 0, 0, ar, gi, e, limit, "Tabs")
    IN [q EXCEPT !.roots = [i \in 1..Len(paths) |-> [q.roots[i] EXCEPT !.symlinks = sl]]]

\* over /s alone: every entry or none passes, streamed or averaged; over /r1 and
\* /s with archives and gitignore: a streaming walk with and without a limit
LiveQueries ==
    {LiveQuery(mode, <<"/s">>, FALSE, FALSE, sl, e, 0) :
       mode \in {"stream", "avg"}, sl \in BOOLEAN,
       e \in {None, Some(Pred("Size", "Gt", "1000"))}}
      \cup {LiveQuery("stream", <<"/r1", "/s">>, TRUE, TRUE, sl, Some(Pred("Size", "Gt", "5")),
                       limit) : sl \in BOOLEAN, limit \in 0..MaxLimit}

InitLive ==
    /\ query \in LiveQueries
    /\ found = 0
    /\ output_buffer = NewOutputBuffer(query.limit)
    /\ raw_output_buffer = <<>>
    /\ gitignore_map = <<>>
    /\ root_idx = 0
    /\ stack = <<>>
    /\ printed = <<>>
    /\ checked = <<>>
    /\ pc = "start"
    /\ cf_entry = None
    /\ cf_info = None
    /\ cf_res = None

SpecLive == InitLive /\ [][Next]_vars /\ WF_vars(Next)

----------------------------------------------------------------------------
(* main: the usage banner when there is no argument; otherwise the         *)
(* arguments are parsed, and either a Searcher is created and run or the   *)
(* error is reported.  Before Searcher::new the fields of the Searcher     *)
(* hold None.  The process ends with a status: 0 when main returns, 101    *)
(* when the main thread panicked.                                          *)

\* the queries the command lines that parse stand for
MainQueries ==
    {WalkQuery(mode, paths, mn, 0, ar, gi, None, limit, fmt) :
       mode \in WalkModes, paths \in WalkRoots, mn \in {0, 2}, ar \in BOOLEAN,
       gi \in BOOLEAN, limit \in {0, 1}, fmt \in WalkFormats}

\* the messages of the parser for the command lines that do not parse
ParseErrors == {"Error parsing query", "Unexpected token"}

InitMain ==
    /\ pc = "main"
    /\ query = None
    /\ found = None
    /\ output_buffer = None
    /\ raw_output_buffer = None
    /\ gitignore_map = None
    /\ root_idx = 0
    /\ stack = <<>>
    /\ printed = <<>>
    /\ checked = <<>>
    /\ cf_entry = None
    /\ cf_info = None
    /\ cf_res = None

\* `if env::args().len() == 1 { usage_info(&mut t); return; }`
usage_info ==
    /\ pc = "main"
    /\ printed' = Append(printed, [kind |-> "usage", text |-> <<"FSelect utility v", "0.3.1">>])
    /\ pc' = "exit 0"
    /\ UNCHANGED <<query, found, output_buffer, raw_output_buffer, gitignore_map, root_idx,
                   stack, checked, cf_entry, cf_info, cf_res>>

\* `Err(err) => error_message("query", err, &mut t)`: the diagnostic, and the end of
\* the process with a non-zero status
error_message ==
    /\ pc = "main"
    /\ \E err \in ParseErrors :
          printed' = Append(printed, [kind |-> "diag", text |-> <<"query", ": ", err>>])
    /\ pc' = "exit 1"
    /\ UNCHANGED <<query, found, output_buffer, raw_output_buffer, gitignore_map, root_idx,
                   stack, checked, cf_entry, cf_info, cf_res>>

\* `Ok(query) => { let mut searcher = Searcher::new(query); .. }`
NewSearcher ==
    /\ pc = "main"
    /\ query' \in MainQueries
    /\ found' = 0
    /\ output_buffer' = NewOutputBuffer(query'.limit)
    /\ raw_output_buffer' = <<>>
    /\ gitignore_map' = <<>>
    /\ pc' = "start"
    /\ UNCHANGED <<root_idx, stack, printed, checked, cf_entry, cf_info, cf_res>>

\* `searcher.list_search_results(&mut t).unwrap()` has returned Ok, or has panicked
MainReturn ==
    /\ pc \in {"done", "panicked"}
    /\ pc' = IF pc = "done" THEN "exit 0" ELSE "exit 101"
    /\ UNCHANGED <<query, found, output_buffer, raw_output_buffer, gitignore_map, root_idx,
                   stack, printed, checked, cf_entry, cf_info, cf_res>>

NextMain ==
    \/ usage_info
    \/ error_message
    \/ NewSearcher
    \/ Next
    \/ MainReturn

SpecMain == InitMain /\ [][NextMain]_vars

----------------------------------------------------------------------------
(* The same query evaluated twice against the same file system: first      *)
(* without an order by clause, then, by a second Searcher, with `order by  *)
(* size` or `order by name` (ascending or descending; several entries are  *)
(* named .gitignore).  The output of the first run is kept, followed by a  *)
(* mark, so that the two outputs can be compared.                          *)

TwiceQueries ==
    {WalkQuery("stream", paths, mn, 0, ar, gi, e, limit, fmt) :
       paths \in WalkRoots, mn \in {0, 2}, ar \in BOOLEAN, gi \in BOOLEAN, e \in WalkExprs,
       limit \in {0, 1}, fmt \in WalkFormats}

InitTwice ==
    /\ query \in TwiceQueries
    /\ found = 0
    /\ output_buffer = NewOutputBuffer(query.limit)
    /\ raw_output_buffer = <<>>
    /\ gitignore_map = <<>>
    /\ root_idx = 0
    /\ stack = <<>>
    /\ printed = <<>>
    /\ checked = <<>>
    /\ pc = "start"
    /\ cf_entry = None
    /\ cf_info = None
    /\ cf_res = None

\* the second evaluation has begun
SecondRun == \E i \in 1..Len(printed) : printed[i].kind = "rerun"

\* Searcher::new on the query with the order by clause added, after the first run
Rerun ==
    /\ pc = "done" /\ ~SecondRun
    /\ \E f \in {"Size", "Name"}, asc \in BOOLEAN :
          query' = [query EXCEPT !.ordering_fields = <<FieldCol(f)>>,
                                 !.ordering_asc = <<asc>>]
    /\ found' = 0
    /\ output_buffer' = NewOutputBuffer(query.limit)
    /\ raw_output_buffer' = <<>>
    /\ gitignore_map' = <<>>
    /\ root_idx' = 0
    /\ stack' = <<>>
    /\ printed' = Append(printed, [kind |-> "rerun", text |-> <<>>])
    /\ checked' = <<>>
    /\ pc' = "start"
    /\ cf_entry' = None
    /\ cf_info' = None
    /\ cf_res' = None

NextTwice == Next \/ Rerun

SpecTwice == InitTwice /\ [][NextTwice]_vars

----------------------------------------------------------------------------
(* An aggregate query over the entries a traversal meets.  The traversal   *)
(* is a sequence of check_file calls on entries drawn from a directory     *)
(* whose file names are decimal literals, negative ones included, or not   *)
(* numbers at all; the aggregate row is printed after any number of calls. *)

\* the number of entries a traversal meets
MaxRows == 3

\* entries named 3, 10, 7, -1, -5 and a.txt, of various sizes
AggEntries ==
    {PlainFile("3", "/n/3", 10), PlainFile("10", "/n/10", 3), PlainFile("7", "/n/7", 0),
     PlainFile("-1", "/n/-1", 20), PlainFile("-5", "/n/-5", 7),
     PlainFile("a.txt", "/n/a.txt", 5)}

AggFunctions == {"Count", "Sum", "Max", "Avg", "Min"}

\* the arguments of the aggregate: a field, or a scalar function applied to a field
AggArguments == {FieldCol("Name"), FieldCol("Size"), FnCol("Upper", FieldCol("Name"))}

AggQueries ==
    {QueryOf(<<FnCol(fn, arg)>>, <<RootOf("/n", 0, 0, FALSE, FALSE)>>, e, <<>>, <<>>,
             0, "Tabs") :
       fn \in AggFunctions, arg \in AggArguments, e \in {None, Some(Pred("Size", "Gt", "5"))}}

InitAgg ==
    /\ query \in AggQueries
    /\ found = 0
    /\ output_buffer = NewOutputBuffer(query.limit)
    /\ raw_output_buffer = <<>>
    /\ gitignore_map = <<>>
    /\ root_idx = 1
    /\ stack = <<>>
    /\ printed = <<>>
    /\ checked = <<>>
    /\ pc = "roots"
    /\ cf_entry = None
    /\ cf_info = None
    /\ cf_res = None

\* the call of check_file on the next entry the traversal meets
AggCheckFile ==
    /\ pc = "roots" /\ Len(checked) < MaxRows
    /\ \E e \in AggEntries : RunCheckFile(e, None, FALSE, 1, <<>>)
    /\ UNCHANGED <<query, gitignore_map, root_idx, stack, pc>>

NextAgg == AggCheckFile \/ Finish

SpecAgg == InitAgg /\ [][NextAgg]_vars

----------------------------------------------------------------------------
(* One check_file call on one entry.  The entries are the situations the   *)
(* providers can be in: a plain file, a script with a shebang and xattrs,  *)
(* an image whose dimensions can be read and one whose cannot, an audio    *)
(* file with and without readable tags, an entry whose stat fails, a       *)
(* directory, a hidden fifo, and the members of a ZIP archive.             *)

EvalEntries ==
    {PlainFile("a.txt", "/r1/a.txt", 10),
     DirEntry("run.py", "/e/run.py", Some(Metadata(20, 33261, 0, None)), None, None,
              Some(TRUE), TRUE),
     DirEntry("pic.png", "/e/pic.png", Some(Metadata(30, 33188, 1000, Some(3))),
              Some(<<20, 10>>), None, Some(FALSE), FALSE),
     DirEntry("bad.png", "/e/bad.png", Some(Metadata(40, 33188, 1000, Some(3))),
              None, None, Some(FALSE), FALSE),
     DirEntry("song.mp3", "/e/song.mp3", Some(Metadata(50, 33188, 1000, Some(3))),
              None, Some(MP3Metadata(128, 44100, Some(SongTag))), Some(FALSE), FALSE),
     DirEntry("notag.mp3", "/e/notag.mp3", Some(Metadata(7, 33188, 1000, Some(3))),
              None, None, Some(FALSE), FALSE),
     DirEntry("gone", "/e/gone", None, None, None, None, FALSE),
     Directory("d", "/r1/d", 1024),
     DirEntry(".hid", "/e/.hid", Some(Metadata(0, 4480, 1000, Some(3))), None, None,
              Some(FALSE), FALSE)}

\* the archive whose members are the virtual entries
EvalArchive == PlainFile("z.zip", "/r1/z.zip", 50)

EvalMembers ==
    {FileInfo("inner/x.txt", 1, Some(33188), 5),
     FileInfo("inner/y.txt", 2, None, 5),
     FileInfo("inner/", 0, Some(16877), 5),
     FileInfo("inner/.cfg", 3, Some(33261), 3),
     FileInfo("inner/p.png", 20, Some(33188), 5)}

\* (entry, file_info) as check_file receives them
EvalSubjects ==
    {[entry |-> e, file_info |-> None] : e \in EvalEntries \cup {EvalArchive}}
      \cup {[entry |-> EvalArchive, file_info |-> Some(m)] : m \in EvalMembers}

\* the comparison values tried for a field
ValsOf(f) ==
    CASE f \in BoolFields -> {"true", "1", "yes", "false", "no"}
      [] f = "Name" -> {"a.txt", "inner/x.txt"}
      [] f = "Path" -> {"/r1/a.txt"}
      [] f \in {"Size", "FormattedSize"} -> {"10", "1k"}
      [] f \in {"Uid", "Gid"} -> {"1000", "0"}
      [] f = "User" -> {"alice"}
      [] f = "Group" -> {"staff"}
      [] f = "Mode" -> {"-rw-r--r--"}
      [] f \in {"Created", "Accessed", "Modified"} -> {"t1", "t3", "t4", "t6"}
      [] f = "Width" -> {"20"}
      [] f = "Height" -> {"10"}
      [] f = "Bitrate" -> {"128"}
      [] f = "Freq" -> {"44100"}
      [] f = "Title" -> {"Song"}
      [] f = "Artist" -> {"Band"}
      [] f = "Album" -> {"Disc"}
      [] f = "Year" -> {"1999"}
      [] f = "Genre" -> {"Rock"}

\* the range [dt_from, dt_to] a datetime value stands for: a period before the
\* timestamps of the entries, one that starts at the earliest and ends at the
\* middle one, an instant between two of them, a period around the latest
DateRange(v) ==
    CASE v = "t1" -> <<1, 2>>
      [] v = "t3" -> <<3, 5>>
      [] v = "t4" -> <<4, 4>>
      [] v = "t6" -> <<6, 8>>

\* a leaf as the parser builds it: Rx and Like carry a compiled regex (here the one
\* matching exactly the value), a datetime value its range
ParsedLeaf(f, op, v) ==
    Leaf(f, op, v, IF op \in {"Rx", "Like"} THEN Some({v}) ELSE None,
         IF f \in {"Created", "Accessed", "Modified"} THEN DateRange(v)[1] ELSE 0,
         IF f \in {"Created", "Accessed", "Modified"} THEN DateRange(v)[2] ELSE 0)

EvalLeaves == UNION {{ParsedLeaf(f, op, v) : op \in Ops, v \in ValsOf(f)} : f \in Fields}

\* the leaves the trees are built from: each of the three sources is needed by two
TreeLeaves ==
    {Pred("Size", "Gt", "5"), Pred("Uid", "Eq", "1000"),
     Pred("Width", "Gte", "20"), Pred("Height", "Gte", "20"),
     Pred("Bitrate", "Eq", "128"), Pred("Freq", "Eq", "1")}

LogicalOps == {"And", "Or"}

EvalTrees ==
    LET flat == {Node(o, l, r) : o \in LogicalOps, l \in TreeLeaves, r \in TreeLeaves}
        inner == {Node(o, l, r) : o \in LogicalOps,
                    l \in {Pred("Size", "Gt", "5"), Pred("Width", "Gte", "20")},
                    r \in {Pred("Height", "Gte", "20"), Pred("Freq", "Eq", "1")}}
    IN flat \cup {Node(o, n, r) : o \in LogicalOps, n \in inner, r \in TreeLeaves}
            \cup {Node(o, l, n) : o \in LogicalOps, l \in TreeLeaves, n \in inner}

\* the projections tried
EvalColumns ==
    {<<FieldCol("Name")>>,
     <<FieldCol("Name"), FieldCol("Size"), FieldCol("Uid"), FieldCol("Gid"),
       FieldCol("User"), FieldCol("Group")>>,
     <<FieldCol("Created"), FieldCol("Accessed"), FieldCol("HasXattrs"),
       FieldCol("Width"), FieldCol("Height")>>,
     <<FieldCol("Bitrate"), FieldCol("Freq"), FieldCol("Title"), FieldCol("Artist"),
       FieldCol("Album"), FieldCol("Year"), FieldCol("Genre")>>,
     <<FnCol("Upper", FieldCol("Name")), FieldCol("Width"), FieldCol("Bitrate")>>}

EvalQuery(e, cols) ==
    QueryOf(cols, <<RootOf("/e", 0, 0, TRUE, FALSE)>>, e, <<>>, <<>>, 0, "Tabs")

\* the same query with `into json`
EvalJsonQuery(e, cols) == [EvalQuery(e, cols) EXCEPT !.output_format = "Json"]

\* the (expression, projection) pairs: every leaf with the name column, every tree
\* with and without columns that need the sources, every projection with no
\* expression, a passing and a failing leaf, every projection into json, every
\* boolean field computed from the name as the single column
EvalQueries ==
    {EvalJsonQuery(None, cols) : cols \in EvalColumns} \cup
    {EvalQuery(None, <<FieldCol(f)>>) : f \in ExtBoolFields \cup {"IsHidden"}} \cup
    {EvalQuery(Some(e), <<FieldCol("Name")>>) : e \in EvalLeaves}
      \cup {EvalQuery(Some(e), cols) :
              e \in EvalTrees,
              cols \in {<<FieldCol("Name")>>,
                        <<FieldCol("Size"), FieldCol("Width"), FieldCol("Bitrate")>>}}
      \cup {EvalQuery(e, cols) :
              e \in {None, Some(Pred("Size", "Gte", "0")), Some(Pred("Width", "Gte", "20")),
                     Some(Pred("Bitrate", "Ne", "128"))},
              cols \in EvalColumns}

InitEval ==
    /\ query \in EvalQueries
    /\ \E s \in EvalSubjects : cf_entry = Some(s.entry) /\ cf_info = s.file_info
    /\ found = 0
    /\ output_buffer = NewOutputBuffer(query.limit)
    /\ raw_output_buffer = <<>>
    /\ gitignore_map = <<>>
    /\ root_idx = 0
    /\ stack = <<>>
    /\ printed = <<>>
    /\ checked = <<>>
    /\ pc = "call"
    /\ cf_res = None

\* the call of check_file on the entry, as visit_dirs makes it at depth 1
EvalCheckFile ==
    /\ pc = "call"
    /\ RunCheckFile(Unwrap(cf_entry), cf_info, query.roots[1].symlinks /\ ~IsSome(cf_info), 1,
                    <<>>)
    /\ pc' = "returned"
    /\ UNCHANGED <<query, gitignore_map, root_idx, stack>>

NextEval == EvalCheckFile

SpecEval == InitEval /\ [][NextEval]_vars

----------------------------------------------------------------------------
(* Properties of the walk.  They are stated over the rows printed, the log *)
(* `checked` of the check_file calls and the frames of visit_dirs.         *)

\* the result rows emitted so far
Rows == SelectSeq(printed, LAMBDA p : p.kind = "row")

\* the size column of a row of the walk's queries (name, size): the last value of
\* the row in both output formats
SizeColumn(text) == Unwrap(parse_int(text[Len(text) - 2]))

\* every entry below dir, the children of dir being at depth `depth`
RECURSIVE Tree(_, _)
Tree(dir, depth) ==
    UNION {{[path |-> ReadDir(dir)[i], depth |-> depth]}
             \cup (IF Unwrap(EntryAt(ReadDir(dir)[i]).fmeta).is_dir
                   THEN Tree(ReadDir(dir)[i], depth + 1) ELSE {})
           : i \in 1..Len(ReadDir(dir))}

\* check_file was called on the real entry at path during the walk of root r
WasChecked(r, path) ==
    \E j \in 1..Len(checked) :
        checked[j].root = r /\ checked[j].path = path /\ checked[j].member = None

\* check_file was called on the member `name` of the archive at path
MemberWasChecked(r, path, name) ==
    \E j \in 1..Len(checked) :
        checked[j].root = r /\ checked[j].path = path /\ checked[j].member = Some(name)

\* no root of the query narrows the walk: no depth window, no gitignore
WholeTree(q) ==
    \A r \in 1..Len(q.roots) :
        q.roots[r].min_depth = 0 /\ q.roots[r].max_depth = 0 /\ ~q.roots[r].gitignore

(* C1: with limit > 0 and no aggregate column the number of result rows    *)
(* emitted is at most limit, streaming or ordered, with or without         *)
(* archives, over one or several roots.                                    *)
C1_RowsAtMostLimit ==
    (query.limit > 0 /\ ~has_aggregate_column(query)) => Len(Rows) <= query.limit

\* a streaming walk stopped by the limit inside an archive: a member was checked,
\* the next one was not, and exactly limit rows were printed
C1_Witness ==
    /\ pc = "done" /\ query.limit > 0 /\ ~is_buffered(query)
    /\ Len(Rows) = query.limit
    /\ MemberWasChecked(1, "/r1/z.zip", "inner/x.txt")
    /\ ~MemberWasChecked(1, "/r1/z.zip", "inner/y.txt")

\* the sizes of the entries of every root's tree, archive members included, that
\* pass the where expression
PassingSizes(q) ==
    UNION {UNION {(IF CheckExpr(q, EntryAt(e.path), None, q.roots[r].symlinks).result
                   THEN {Unwrap(EntryAt(e.path).lmeta).len} ELSE {})
                    \cup {ArchiveOf(q.roots[r], e.path)[k].size :
                            k \in {k \in 1..Len(ArchiveOf(q.roots[r], e.path)) :
                                     CheckExpr(q, EntryAt(e.path),
                                               Some(ArchiveOf(q.roots[r], e.path)[k]),
                                               FALSE).result}}
                  : e \in Tree(q.roots[r].path, 1)}
           : r \in 1..Len(q.roots)}

\* a set of numbers in ascending (asc) or descending order
SortedSeq(S, asc) ==
    [i \in 1..Cardinality(S) |->
        CHOOSE x \in S : Cardinality({y \in S : IF asc THEN y < x ELSE y > x}) = i - 1]

C3_BufferedNeverCutShort ==
    (pc = "done" /\ is_buffered(query))
    => \A j \in 1..Len(checked) :
          LET r == checked[j].root
              root == query.roots[r]
              path == checked[j].path
              dir == Unwrap(Parent(path))
              filters == Some(get_gitignore_filters(gitignore_map, dir))
          IN checked[j].member = None
             => /\ \A i \in 1..Len(ReadDir(dir)) :
                      (~root.gitignore
                         \/ ~matches_gitignore_filter(filters, ReadDir(dir)[i],
                               Unwrap(EntryAt(ReadDir(dir)[i]).fmeta).is_dir))
                      => WasChecked(r, ReadDir(dir)[i])
                /\ \A k \in 1..Len(ArchiveOf(root, path)) :
                      MemberWasChecked(r, path, ArchiveOf(root, path)[k].name)

(* C4: check_file is run on an entry at depth d (children of the root at   *)
(* depth 1) iff (min_depth = 0 or d >= min_depth) and (max_depth = 0 or    *)
(* d <= max_depth); directories above the window are still descended.      *)
(* Stated without gitignore and without limit, so that nothing else keeps  *)
(* an entry from being checked.                                            *)
C4_DepthWindow ==
    (/\ pc = "done" /\ query.limit = 0
     /\ \A r \in 1..Len(query.roots) : ~query.roots[r].gitignore)
    => \A r \in 1..Len(query.roots) :
          \A e \in Tree(query.roots[r].path, 1) :
              WasChecked(r, e.path)
              <=> /\ (query.roots[r].min_depth = 0 \/ e.depth >= query.roots[r].min_depth)
                  /\ (query.roots[r].max_depth = 0 \/ e.depth <= query.roots[r].max_depth)

\* the filters of every directory from top down to dir that has a .gitignore,
\* outermost first
RECURSIVE InheritedFilters(_, _)
InheritedFilters(top, dir) ==
    (IF dir = top \/ ~IsSome(Parent(dir)) THEN <<>>
     ELSE InheritedFilters(top, Unwrap(Parent(dir))))
      \o (IF IsSome(GitignoreFile(dir)) THEN Unwrap(GitignoreFile(dir)) ELSE <<>>)

(* C5: with gitignore on, the filter list applied to the children of a     *)
(* visited directory D is the concatenation, outermost first, of the       *)
(* filters of D's visited ancestors and of D itself; so no entry matched   *)
(* by a filter inherited from an ancestor is checked, also when D has its  *)
(* own .gitignore.                                                          *)
C5_InheritedFilters ==
    /\ \A k \in 1..Len(stack) :
          Root.gitignore
          => stack[k].filters = Some(InheritedFilters(Root.path, stack[k].dir))
    /\ \A j \in 1..Len(checked) :
          query.roots[checked[j].root].gitignore
          => ~matches_gitignore_filter(
                 Some(InheritedFilters(query.roots[checked[j].root].path,
                                       Unwrap(Parent(checked[j].path)))),
                 checked[j].path,
                 Unwrap(EntryAt(checked[j].path).fmeta).is_dir)

----------------------------------------------------------------------------
(* Properties of one check_file call.  cf_entry and cf_info are the entry  *)
(* of the call, cf_res its outcome: the result of conforms (passed), the   *)
(* slots conforms returned, the leaves it evaluated, the provider calls of *)
(* conforms (calls) and of the projection (pcalls), the rendered columns.  *)

Returned == pc = "returned"
TheExpr == Unwrap(query.expr)
TheEntry == Unwrap(cf_entry)
TheResult == Unwrap(cf_res)

(* C6: for an internal node conforms returns left AND right (And) or left  *)
(* OR right (Or); the right subtree is evaluated, and its providers are    *)
(* invoked, only when the left result is true (And) or false (Or); the     *)
(* slots returned by the left subtree are handed to the right subtree and  *)
(* the slots of the last subtree evaluated are returned.                   *)
C6_LogicalNode ==
    (Returned /\ IsSome(query.expr) /\ TheExpr.kind = "node")
    => LET l == conforms(TheEntry, cf_info, TheExpr.left, None, None, None, FALSE)
           r == conforms(TheEntry, cf_info, TheExpr.right, l.meta, l.dim, l.mp3, FALSE)
           right == IF TheExpr.logical_op = "And" THEN l.result ELSE ~l.result
           last == IF right THEN r ELSE l
       IN /\ TheResult.passed = IF TheExpr.logical_op = "And"
                                THEN l.result /\ r.result ELSE l.result \/ r.result
          /\ TheResult.leaves = l.leaves \o (IF right THEN r.leaves ELSE <<>>)
          /\ TheResult.calls = l.calls \o (IF right THEN r.calls ELSE <<>>)
          /\ TheResult.meta = last.meta
          /\ TheResult.dim = last.dim
          /\ TheResult.mp3 = last.mp3

\* (width >= 20 and height >= 20) and freq = 1 on an image 20 x 10: height reuses
\* the dimensions width fetched, the inner And fails, and freq is never evaluated
C6_Witness ==
    /\ Returned
    /\ query.expr = Some(Node("And", Node("And", Pred("Width", "Gte", "20"),
                                                Pred("Height", "Gte", "20")),
                              Pred("Freq", "Eq", "1")))
    /\ TheEntry.name = "pic.png"
    /\ ~TheResult.passed
    /\ TheResult.leaves = <<Pred("Width", "Gte", "20"), Pred("Height", "Gte", "20")>>
    /\ TheResult.calls = <<"imagesize">>
    /\ TheResult.dim = Some(<<20, 10>>)

\* the number of calls of a provider in a log
CallCount(log, provider) == Cardinality({i \in 1..Len(log) : log[i] = provider})

(* C7: for an entry processed by check_file each of the three sources (the *)
(* stat, the image-dimension probe, the audio-tag probe) is fetched at     *)
(* most once, counting conforms and the projection, also when the fetch    *)
(* fails.                                                                  *)
C7_FetchedAtMostOnce ==
    Returned
    => \A provider \in {"stat", "imagesize", "mp3"} :
          CallCount(TheResult.calls \o TheResult.pcalls, provider) <= 1

\* the fields the claim about predicates on virtual entries names
VirtualPredicateFields ==
    {"Uid", "Gid", "User", "Group", "Created", "Accessed", "HasXattrs", "IsShebang",
     "Width", "Height", "Bitrate", "Freq", "Title", "Artist", "Album", "Year", "Genre"}

(* C8: on a virtual entry a leaf predicate on uid, gid, user, group,       *)
(* created, accessed, has_xattrs, is_shebang, width, height, bitrate,      *)
(* freq, title, artist, album, year or genre is false for every operator   *)
(* and value, and conforms returns the three slots it was given without    *)
(* calling a provider.                                                     *)
C8_VirtualPredicateFalse ==
    (/\ Returned /\ IsSome(cf_info) /\ IsSome(query.expr)
     /\ TheExpr.kind = "leaf" /\ TheExpr.field \in VirtualPredicateFields)
    => /\ ~TheResult.passed
       /\ TheResult.calls = <<>>
       /\ TheResult.meta = None /\ TheResult.dim = None /\ TheResult.mp3 = None
       /\ \A m \in {None, TheEntry.lmeta}, d \in {None, Some(<<20, 10>>)},
             p \in {None, Some(MP3Metadata(128, 44100, Some(SongTag)))} :
             conforms(TheEntry, cf_info, TheExpr, m, d, p, FALSE)
               = [result |-> FALSE, meta |-> m, dim |-> d, mp3 |-> p,
                  calls |-> <<>>, leaves |-> <<TheExpr>>]

\* uid = 1000 on a member of an archive whose own uid is 1000
C8_Witness ==
    /\ Returned /\ IsSome(cf_info)
    /\ query.expr = Some(Pred("Uid", "Eq", "1000"))
    /\ Unwrap(TheEntry.lmeta).uid = Some(1000)
    /\ ~TheResult.passed /\ TheResult.calls = <<>>

\* the fields the claim about projected columns of virtual entries names
VirtualColumnFields ==
    {"Uid", "Gid", "User", "Group", "Created", "Accessed", "HasXattrs", "Width", "Height"}
      \cup Mp3Fields

(* C9: on a virtual entry a projected column on uid, gid, user, group,     *)
(* created, accessed, has_xattrs, width, height or an audio-tag field      *)
(* renders as the empty string, never as an attribute of the archive.      *)
C9_VirtualColumnEmpty ==
    (Returned /\ IsSome(cf_info) /\ TheResult.passed)
    => \A i \in 1..Len(query.fields) :
          (/\ IsSome(query.fields[i].field)
           /\ Unwrap(query.fields[i].field) \in VirtualColumnFields)
          => TheResult.values[i] = <<>>

\* the value of a boolean field of a real entry, read off the entry
ActualBool(entry, f) ==
    CASE f = "IsDir" -> Unwrap(entry.lmeta).is_dir
      [] f = "IsFile" -> Unwrap(entry.lmeta).is_file
      [] f = "IsSymlink" -> Unwrap(entry.lmeta).is_symlink
      [] f \in ModeBoolFields -> mode_func(f, Unwrap(entry.lmeta).mode)
      [] f \in ExtBoolFields -> ExtFunc(f, entry.name)
      [] f = "IsHidden" -> is_hidden(entry.name, FALSE)
      [] f = "HasXattrs" -> Unwrap(entry.xattrs)
      [] f = "IsShebang" -> entry.shebang

\* the source of the field can be read
SourceAvailable(entry, f) ==
    /\ f \in MetaBoolFields \cup ModeBoolFields => IsSome(entry.lmeta)
    /\ f = "HasXattrs" => IsSome(entry.xattrs)

(* C10: for a boolean field f of a real entry whose source is available,   *)
(* with actual value b, and a comparison value v: f Eq v and f Eeq v hold  *)
(* iff b = truthy(v), f Ne v and f Ene v iff b /= truthy(v), truthy being  *)
(* true for true, 1 and yes.                                               *)
C10_BooleanPredicate ==
    (/\ Returned /\ ~IsSome(cf_info) /\ IsSome(query.expr) /\ TheExpr.kind = "leaf"
     /\ TheExpr.field \in BoolFields /\ TheExpr.op \in {"Eq", "Eeq", "Ne", "Ene"}
     /\ SourceAvailable(TheEntry, TheExpr.field))
    => LET b == ActualBool(TheEntry, TheExpr.field)
           truthy == TheExpr.val \in {"true", "1", "yes"}
       IN TheResult.passed = IF TheExpr.op \in {"Eq", "Eeq"} THEN b = truthy ELSE b /= truthy

\* the string-valued fields
StringFields == {"Name", "Path", "User", "Group", "Mode", "Title", "Artist", "Album", "Genre"}

\* the string a string-valued field of a real entry holds, read off the entry;
\* None when its source (the stat, the user database, the audio tag) is missing
ActualString(entry, f) ==
    CASE f = "Name" -> Some(entry.name)
      [] f = "Path" -> Some(entry.path)
      [] f \in {"User", "Group"} ->
            IF ~IsSome(entry.lmeta) THEN None
            ELSE IF f = "User" THEN get_user_by_uid(Unwrap(Unwrap(entry.lmeta).uid))
            ELSE get_group_by_gid(Unwrap(Unwrap(entry.lmeta).gid))
      [] f = "Mode" ->
            IF IsSome(entry.lmeta) THEN Some(format_mode(Unwrap(entry.lmeta).mode)) ELSE None
      [] f \in {"Title", "Artist", "Album", "Genre"} ->
            IF ~IsSome(entry.mp3) \/ ~IsSome(Unwrap(entry.mp3).tag) THEN None
            ELSE LET tag == Unwrap(Unwrap(entry.mp3).tag)
                 IN CASE f = "Title" -> Some(tag.title)
                      [] f = "Artist" -> Some(tag.artist)
                      [] f = "Album" -> Some(tag.album)
                      [] f = "Genre" -> Some(tag.genre)

\* the outcome the operator table gives for a string s
StringPredicate(op, val, regex, s) ==
    CASE op = "Eq" -> IF IsSome(regex) THEN s \in Unwrap(regex) ELSE val = s
      [] op = "Ne" -> IF IsSome(regex) THEN s \notin Unwrap(regex) ELSE val /= s
      [] op \in {"Rx", "Like"} -> IsSome(regex) /\ s \in Unwrap(regex)
      [] op = "Eeq" -> val = s
      [] op = "Ene" -> val /= s

(* C11: for a string-valued field (Name, Path, User, Group, Mode, Title,   *)
(* Artist, Album, Genre) of a real entry whose source is available with    *)
(* value s, Eq and Ne compare by the precompiled regex when there is one   *)
(* and by string equality otherwise, Rx and Like hold iff a regex is       *)
(* present and matches s, Eeq holds iff val = s and Ene iff val /= s; when *)
(* the source is missing the predicate is false for every operator.        *)
C11_StringPredicate ==
    (/\ Returned /\ ~IsSome(cf_info) /\ IsSome(query.expr) /\ TheExpr.kind = "leaf"
     /\ TheExpr.field \in StringFields)
    => LET s == ActualString(TheEntry, TheExpr.field)
       IN IF ~IsSome(s) THEN ~TheResult.passed
          ELSE TheExpr.op \in {"Eq", "Ne", "Rx", "Like", "Eeq", "Ene"}
                 => TheResult.passed
                      = StringPredicate(TheExpr.op, TheExpr.val, TheExpr.regex, Unwrap(s))

DateFields == {"Created", "Accessed", "Modified"}

\* the timestamp a datetime field holds, read off the entry (the member of the
\* archive for a virtual entry); None when it is not available
ActualTime(entry, file_info, f) ==
    IF IsSome(file_info)
    THEN IF f = "Modified" THEN Some(Unwrap(file_info).modified) ELSE None
    ELSE IF ~IsSome(entry.lmeta) THEN None
    ELSE CASE f = "Created" -> Unwrap(entry.lmeta).created
           [] f = "Accessed" -> Unwrap(entry.lmeta).accessed
           [] f = "Modified" -> Unwrap(entry.lmeta).modified

\* the result of conforms on the leaf of the query with another operator
WithOp(op) ==
    conforms(TheEntry, cf_info, [TheExpr EXCEPT !.op = op], None, None, None, FALSE).result

(* C12: for a datetime field (Created, Accessed, Modified) of an entry     *)
(* whose timestamp dt is available and a range [dt_from, dt_to] with       *)
(* dt_from <= dt_to: Eq holds iff dt_from <= dt <= dt_to, Ne iff dt is     *)
(* outside the range, Gt iff dt > dt_to, Gte iff dt >= dt_from, Lt iff     *)
(* dt < dt_from, Lte iff dt <= dt_to, Eeq iff dt = dt_from, Ene iff        *)
(* dt /= dt_from; Ne is the negation of Eq, Gte of Lt, Lte of Gt, and Eq   *)
(* is Gte and Lte.                                                         *)
C12_DateRange ==
    (/\ Returned /\ IsSome(query.expr) /\ TheExpr.kind = "leaf"
     /\ TheExpr.field \in DateFields /\ TheExpr.dt_from <= TheExpr.dt_to
     /\ IsSome(ActualTime(TheEntry, cf_info, TheExpr.field)))
    => LET dt == Unwrap(ActualTime(TheEntry, cf_info, TheExpr.field))
           from == TheExpr.dt_from
           to == TheExpr.dt_to
       IN /\ TheExpr.op = "Eq" => TheResult.passed = (from <= dt /\ dt <= to)
          /\ TheExpr.op = "Ne" => TheResult.passed = ~(from <= dt /\ dt <= to)
          /\ TheExpr.op = "Gt" => TheResult.passed = (dt > to)
          /\ TheExpr.op = "Gte" => TheResult.passed = (dt >= from)
          /\ TheExpr.op = "Lt" => TheResult.passed = (dt < from)
          /\ TheExpr.op = "Lte" => TheResult.passed = (dt <= to)
          /\ TheExpr.op = "Eeq" => TheResult.passed = (dt = from)
          /\ TheExpr.op = "Ene" => TheResult.passed = (dt /= from)
          /\ WithOp("Ne") = ~WithOp("Eq")
          /\ WithOp("Gte") = ~WithOp("Lt")
          /\ WithOp("Lte") = ~WithOp("Gt")
          /\ WithOp("Eq") = (WithOp("Gte") /\ WithOp("Lte"))

\* accessed > t6 on a file accessed at 7, strictly inside the range [6, 8]: false,
\* although the timestamp is later than the start of the range
C12_Witness ==
    /\ Returned /\ ~IsSome(cf_info)
    /\ query.expr = Some(ParsedLeaf("Accessed", "Gt", "t6"))
    /\ TheEntry.name = "a.txt"
    /\ Unwrap(TheEntry.lmeta).accessed = Some(7)
    /\ ~TheResult.passed

----------------------------------------------------------------------------
(* Properties of the output of a run.                                      *)

\* the rows printed so far
RowCount == Cardinality({i \in 1..Len(printed) : printed[i].kind = "row"})

\* list_search_results has left the loop over the roots and taken its last step
Ended == pc \notin {"start", "roots"}

(* C13: when a projected column is an aggregate function, no row is       *)
(* emitted during the traversal and exactly one row is emitted after all   *)
(* roots have been traversed, whatever the tree and the number of accepted *)
(* entries, zero included.                                                 *)
C13_OneAggregateRow ==
    has_aggregate_column(query)
    => /\ ~Ended => RowCount = 0
       /\ Ended => RowCount = 1

----------------------------------------------------------------------------
(* Properties of the aggregate row.  The accepted rows are the entries of  *)
(* `checked` that passed; the row is the one print of a finished run.      *)

\* the entries accepted, in the order they were met
Accepted == SelectSeq(checked, LAMBDA c : c.passed)

\* the leaf Field of a column: the field found by walking through its functions
RECURSIVE LeafField(_)
LeafField(col) ==
    IF IsSome(col.field) THEN Unwrap(col.field) ELSE LeafField(Unwrap(col.left))

\* the aggregate function and the field of the single column of the query
TheFunction == Unwrap(query.fields[1].function)
TheField == LeafField(query.fields[1])

\* the argument of the aggregate is a bare field
FieldArgument == IsSome(Unwrap(query.fields[1].left).field)

\* the integer a decimal literal denotes, None when the string is not one
Literal(str) ==
    IF \E n \in -5..2048 : ToString(n) = str
    THEN Some(CHOOSE n \in -5..2048 : ToString(n) = str) ELSE None

\* the entry of the i-th accepted row
AcceptedEntry(i) == CHOOSE e \in AggEntries : e.path = Accepted[i].path

\* the value of TheField in the i-th accepted row, as an integer when it is one
ValueAt(i) ==
    IF TheField = "Name" THEN Literal(AcceptedEntry(i).name)
    ELSE Some(Unwrap(AcceptedEntry(i).lmeta).len)

\* the accepted rows whose value parses as an unsigned integer
Unsigned == {i \in 1..Len(Accepted) : IsSome(ValueAt(i)) /\ Unwrap(ValueAt(i)) >= 0}

RECURSIVE Total(_)
Total(S) ==
    IF S = {} THEN 0
    ELSE LET i == CHOOSE x \in S : TRUE IN Unwrap(ValueAt(i)) + Total(S \ {i})

\* the single value of the aggregate row (Tabs: the value, a tab, a newline)
TheAggregate == Rows[1].text[1]

(* C14: in an aggregate query over a non-empty set R of accepted rows,     *)
(* for a field column f, Count renders |R| whatever its argument, Sum the  *)
(* sum of the values of f in R that parse as unsigned integers, Max the    *)
(* largest such value or 0 when none parses, Avg that sum divided by |R|   *)
(* with integer division.                                                  *)
C14_AggregateValues ==
    (pc = "done" /\ Len(Accepted) > 0 /\ FieldArgument)
    => /\ Len(Rows) = 1
       /\ TheFunction = "Count" => TheAggregate = ToString(Len(Accepted))
       /\ TheFunction = "Sum" => TheAggregate = ToString(Total(Unsigned))
       /\ TheFunction = "Max" =>
             TheAggregate = ToString(IF Unsigned = {} THEN 0
                                     ELSE CHOOSE m \in {Unwrap(ValueAt(i)) : i \in Unsigned} :
                                            \A i \in Unsigned : Unwrap(ValueAt(i)) <= m)
       /\ TheFunction = "Avg" => TheAggregate = ToString(Total(Unsigned) \div Len(Accepted))

\* avg(name) over the files 10, a.txt and -1: 10 divided by the three rows, not by
\* the one value that parses
C14_Witness ==
    /\ pc = "done" /\ TheFunction = "Avg" /\ FieldArgument /\ TheField = "Name"
    /\ query.expr = None
    /\ [i \in 1..Len(Accepted) |-> Accepted[i].path] = <<"/n/10", "/n/a.txt", "/n/-1">>
    /\ TheAggregate = "3"

\* the accepted rows whose value parses as a signed integer
Signed == {i \in 1..Len(Accepted) : IsSome(ValueAt(i))}

(* C15: in an aggregate query Min over a field renders the smallest of the *)
(* values that parse as signed integers across the accepted rows, in       *)
(* whatever order the rows were collected, and -1 when no accepted row has *)
(* a parseable value.                                                      *)
C15_MinValue ==
    (pc = "done" /\ TheFunction = "Min" /\ FieldArgument)
    => /\ Len(Rows) = 1
       /\ TheAggregate = ToString(IF Signed = {} THEN 0 - 1
                                  ELSE CHOOSE m \in {Unwrap(ValueAt(i)) : i \in Signed} :
                                         \A i \in Signed : m <= Unwrap(ValueAt(i)))

(* C16: for every query and every file system list_search_results runs to  *)
(* completion: no combination of query and result set aborts the run, in   *)
(* particular an aggregate query with Avg, Sum, Count, Min or Max over     *)
(* zero accepted rows, where Count renders 0 and Sum renders 0.            *)
C16_RunsToCompletion ==
    /\ pc /= "panicked"
    /\ (/\ pc = "done" /\ found = 0 /\ query.output_format = "Tabs"
        /\ query.fields = WalkColumns("sums"))
       => /\ RowCount = 1
          /\ Rows[1].text[1] = "0"
          /\ Rows[1].text[3] = "0"

\* everything printed so far, as one sequence of pieces
RECURSIVE Flatten(_)
Flatten(prints) == IF prints = <<>> THEN <<>> ELSE Head(prints).text \o Flatten(Tail(prints))

Output == Flatten(printed)

\* the piece at position i of out lies outside every object
TopLevel(out, i) ==
    /\ out[i] \notin {"{", "}"}
    /\ Cardinality({j \in 1..i : out[j] = "{"}) = Cardinality({j \in 1..i : out[j] = "}"})

\* `[`, objects with one comma between two neighbours and nothing else, `]`
JsonArray(out) ==
    /\ Len(out) >= 2 /\ out[1] = "[" /\ out[Len(out)] = "]"
    /\ \A i \in 2..(Len(out) - 1) :
          /\ TopLevel(out, i) => (out[i] = "," /\ out[i - 1] = "}" /\ out[i + 1] = "{")
          /\ out[i] = "{" => (i = 2 \/ out[i - 1] = ",")

(* C17: when the output format is JSON the complete output of a run is [,  *)
(* then k objects separated by exactly k-1 commas (no leading, trailing or *)
(* doubled comma), then ], for every k >= 0, in streaming, ordered and     *)
(* aggregate mode, with several roots and with archives.                   *)
C17_JsonArray ==
    (Ended /\ query.output_format = "Json")
    => /\ JsonArray(Output)
       /\ Cardinality({i \in 1..Len(Output) : Output[i] = "{"}) = RowCount

----------------------------------------------------------------------------
(* Properties of a rendered row.                                           *)

\* the row check_file printed
TheRow == printed[Len(printed)].text

\* the number of keys of a rendered object
KeyCount(text) == Cardinality({i \in 1..Len(text) : text[i] = "\":\""})

\* the rendered object has the member "key":"value"
HasMember(text, key, value) ==
    LET member == <<"\"">> \o key \o <<"\":\"">> \o value \o <<"\"">>
    IN \E i \in 1..Len(text) :
          /\ i + Len(member) - 1 <= Len(text)
          /\ SubSeq(text, i, i + Len(member) - 1) = member

\* the lower-cased labels of the projected columns
ColumnKeys == {ColumnKey(query.fields[i]) : i \in 1..Len(query.fields)}

(* C18: when the output format is JSON the object emitted for an accepted  *)
(* entry has exactly one key per projected column, the lower-cased column  *)
(* label, mapped to the column's rendered string, and no other key; a      *)
(* projected upper(name) does not add a separate name key.                 *)
C18_JsonKeys ==
    (Returned /\ TheResult.passed /\ query.output_format = "Json")
    => /\ Len(printed) = 1
       /\ \A i \in 1..Len(query.fields) :
             HasMember(TheRow, ColumnKey(query.fields[i]), TheResult.values[i])
       /\ KeyCount(TheRow) = Cardinality(ColumnKeys)

\* the values with one tab between two neighbours
RECURSIVE TabSeparated(_)
TabSeparated(values) ==
    IF values = <<>> THEN <<>>
    ELSE Head(values) \o (IF Len(values) > 1 THEN <<"\t">> ELSE <<>>)
           \o TabSeparated(Tail(values))

(* C19: when the output format is Tabs a row with n >= 1 projected columns *)
(* renders as the n column values with exactly n-1 tab characters between  *)
(* them followed by one newline, with no tab after the last column.        *)
C19_TabsRow ==
    (/\ Returned /\ TheResult.passed /\ query.output_format = "Tabs"
     /\ Len(query.fields) >= 1)
    => /\ Len(printed) = 1
       /\ TheRow = TabSeparated(TheResult.values) \o <<"\n">>

----------------------------------------------------------------------------
(* Properties of main.                                                     *)

\* the process has ended
Exited == pc \in {"exit 0", "exit 1", "exit 101"}

ExitStatus ==
    CASE pc = "exit 0" -> 0
      [] pc = "exit 1" -> 1
      [] pc = "exit 101" -> 101

\* the number of prints of a kind
PrintCount(kind) == Cardinality({i \in 1..Len(printed) : printed[i].kind = kind})

(* C20: when the query string fails to parse no Searcher is created, no    *)
(* root is traversed, no result row or JSON bracket is printed, a          *)
(* diagnostic is reported once, and the process ends with a non-zero exit  *)
(* status; when the query parses (also with an empty result set) or when   *)
(* there are no arguments, the exit status is 0.                           *)
C20_ExitStatus ==
    /\ PrintCount("diag") > 0
       => /\ query = None /\ output_buffer = None
          /\ root_idx = 0 /\ checked = <<>>
          /\ PrintCount("row") = 0 /\ PrintCount("start") = 0 /\ PrintCount("end") = 0
          /\ PrintCount("diag") = 1
          /\ Exited /\ ExitStatus /= 0
    /\ (Exited /\ PrintCount("diag") = 0) => ExitStatus = 0

(* C27: the field an aggregate column reduces is the leaf Field found by   *)
(* walking through the functions of its argument: for an aggregate of a    *)
(* scalar function of a field, such as max(upper(name)), Sum and Max are   *)
(* computed from the values the accepted rows hold for that leaf field,    *)
(* not from an empty key.                                                  *)
C27_AggregateLeafField ==
    (pc = "done" /\ Len(Accepted) > 0 /\ ~FieldArgument)
    => /\ Len(Rows) = 1
       /\ TheFunction = "Sum" => TheAggregate = ToString(Total(Unsigned))
       /\ TheFunction = "Max" =>
             TheAggregate = ToString(IF Unsigned = {} THEN 0
                                     ELSE CHOOSE m \in {Unwrap(ValueAt(i)) : i \in Unsigned} :
                                            \A i \in Unsigned : Unwrap(ValueAt(i)) <= m)

----------------------------------------------------------------------------
(* Properties relating the predicate on a field to its projection.         *)

\* the boolean fields computed from the name of the entry
PathBoolFields == ExtBoolFields \cup {"IsHidden"}

\* the entry satisfies the predicate `f = true`
SatisfiesTrue(entry, file_info, f) ==
    conforms(entry, file_info, ParsedLeaf(f, "Eq", "true"), None, None, None, FALSE).result

(* C28: for every entry, real or virtual, and every field f of is_archive, *)
(* is_audio, is_book, is_doc, is_image, is_source, is_video and is_hidden, *)
(* the entry satisfies the predicate f = true iff the value projected for  *)
(* f on that entry is true.                                                *)
C28_PredicateMatchesProjection ==
    (/\ Returned /\ TheResult.passed /\ Len(query.fields) = 1
     /\ IsSome(query.fields[1].field) /\ Unwrap(query.fields[1].field) \in PathBoolFields)
    => (SatisfiesTrue(TheEntry, cf_info, Unwrap(query.fields[1].field))
          <=> TheResult.values[1] = <<"true">>)

----------------------------------------------------------------------------
(* The order of the traversal.  The depth-first pre-order of a directory:  *)
(* its children in the order read_dir reports them, each child followed by *)
(* the members of its archive in index order and then by its descendants.  *)

\* the child and the members of the archive at the child
ChildItems(path) ==
    <<[path |-> path, member |-> None]>>
      \o (IF IsSome(ZipMembers(path))
          THEN [k \in 1..Len(Unwrap(ZipMembers(path))) |->
                   [path |-> path, member |-> Some(Unwrap(ZipMembers(path))[k].name)]]
          ELSE <<>>)

RECURSIVE PreOrderFrom(_, _)
PreOrderFrom(dir, i) ==
    IF i > Len(ReadDir(dir)) THEN <<>>
    ELSE ChildItems(ReadDir(dir)[i]) \o PreOrderFrom(ReadDir(dir)[i], 1)
           \o PreOrderFrom(dir, i + 1)

PreOrder(dir) == PreOrderFrom(dir, 1)

\* the position of the j-th check_file call in the pre-order of its root
PreOrderIndex(j) ==
    LET seq == PreOrder(query.roots[checked[j].root].path)
    IN CHOOSE i \in 1..Len(seq) :
          seq[i] = [path |-> checked[j].path, member |-> checked[j].member]

\* the entry and the file_info of an entry of the log
CheckedEntry(c) == EntryAt(c.path)
CheckedInfo(c) ==
    IF c.member = None THEN None
    ELSE LET members == Unwrap(ZipMembers(c.path))
         IN Some(members[CHOOSE k \in 1..Len(members) : members[k].name = Unwrap(c.member)])

\* the row check_file prints for the i-th accepted entry of a streaming query
StreamedRow(i) ==
    check_file(query, i - 1, output_buffer, raw_output_buffer, CheckedEntry(Accepted[i]),
               CheckedInfo(Accepted[i]),
               query.roots[Accepted[i].root].symlinks /\ Accepted[i].member = None).print[1]

\* the pre-order of a root, without the archive members when archives is off
RootItems(root) ==
    SelectSeq(PreOrder(root.path), LAMBDA x : x.member = None \/ root.archives)

RECURSIVE AllItems(_, _)
AllItems(roots, r) ==
    IF r > Len(roots) THEN <<>>
    ELSE [i \in 1..Len(RootItems(roots[r])) |->
             [root |-> r, path |-> RootItems(roots[r])[i].path,
              member |-> RootItems(roots[r])[i].member]]
           \o AllItems(roots, r + 1)

(* C21: in streaming mode the check_file calls follow the depth-first      *)
(* pre-order: roots in declared order, the children of a directory in the  *)
(* order the OS reports them, a child before its archive members (in index *)
(* order), these before its descendants, all before the next sibling; the  *)
(* rows emitted are the rows of the accepted entries in that order; and a  *)
(* walk that nothing narrows or stops visits the whole pre-order.          *)
C21_PreOrderRows ==
    ~is_buffered(query)
    => /\ \A j \in 1..Len(checked) : \A k \in (j + 1)..Len(checked) :
             \/ checked[j].root < checked[k].root
             \/ /\ checked[j].root = checked[k].root
                /\ PreOrderIndex(j) < PreOrderIndex(k)
       /\ Len(Rows) = Len(Accepted)
       /\ \A i \in 1..Len(Rows) : Rows[i] = StreamedRow(i)
       /\ (pc = "done" /\ query.limit = 0 /\ WholeTree(query))
          => [j \in 1..Len(checked) |->
                 [root |-> checked[j].root, path |-> checked[j].path,
                  member |-> checked[j].member]]
               = AllItems(query.roots, 1)

\* a finished streaming walk of two roots with archives: the archive, its two
\* members, then the directory after it and that directory's children
C21_Witness ==
    /\ pc = "done" /\ ~is_buffered(query) /\ Len(query.roots) = 2
    /\ query.limit = 0 /\ WholeTree(query) /\ query.roots[1].archives
    /\ \E j \in 1..Len(checked) :
          /\ j + 4 <= Len(checked)
          /\ [k \in 0..4 |-> <<checked[j + k].path, checked[j + k].member>>]
               = [k \in 0..4 |->
                    <<<<"/r1/z.zip", None>>, <<"/r1/z.zip", Some("inner/x.txt")>>,
                      <<"/r1/z.zip", Some("inner/y.txt")>>, <<"/r1/d", None>>,
                      <<"/r1/d/.gitignore", None>>>>[k + 1]]
    /\ checked[Len(checked)].root = 2
    /\ Len(Rows) > 2

\* the entries of the whole pre-order of the roots that pass the where expression
PassingItems(q) ==
    SelectSeq(AllItems(q.roots, 1),
              LAMBDA x : CheckExpr(q, CheckedEntry(x), CheckedInfo(x),
                                   q.roots[x.root].symlinks /\ x.member = None).result)

(* C26: in streaming mode with limit > 0, check_file is never called once  *)
(* found >= limit: every call of the log was made while fewer than limit   *)
(* entries had been accepted, whatever came next (a sibling, an archive    *)
(* member, a descendant, an entry of a later root); and a finished walk of *)
(* the whole tree has printed exactly limit rows when at least limit       *)
(* entries pass, and all the passing entries otherwise.                    *)
C26_StopsAtLimit ==
    (~is_buffered(query) /\ query.limit > 0)
    => /\ \A j \in 1..Len(checked) :
             Cardinality({k \in 1..(j - 1) : checked[k].passed}) < query.limit
       /\ found = Len(Accepted)
       /\ (pc = "done" /\ WholeTree(query))
          => RowCount = IF Len(PassingItems(query)) >= query.limit
                        THEN query.limit ELSE Len(PassingItems(query))

\* the limit is reached on the archive z.zip: no member of it, no later sibling
\* and no entry of the second root is checked
C26_Witness ==
    /\ pc = "done" /\ ~is_buffered(query) /\ query.limit = 2 /\ RowCount = 2
    /\ Len(query.roots) = 2 /\ query.roots[1].archives /\ WholeTree(query)
    /\ Len(PassingItems(query)) > 2
    /\ checked[Len(checked)].path = "/r1/z.zip" /\ checked[Len(checked)].member = None
    /\ ~WasChecked(1, "/r1/d") /\ ~WasChecked(2, "/r2/k.txt")

----------------------------------------------------------------------------
(* Properties of the gitignore pruning.                                    *)

\* the directories from the parent of path up to top, top included
RECURSIVE DirsAbove(_, _)
DirsAbove(top, path) ==
    IF path = top \/ ~IsSome(Parent(path)) THEN {}
    ELSE {Unwrap(Parent(path))} \cup DirsAbove(top, Unwrap(Parent(path)))

\* path is matched by a filter of the list its directory applies to its children
Ignored(path) ==
    LET filters == get_gitignore_filters(gitignore_map, Unwrap(Parent(path)))
    IN \E i \in 1..Len(filters) : FilterMatches(filters[i], path, FALSE)

(* C29: with gitignore on, an entry matched by the filters its directory   *)
(* applies is pruned entirely: check_file is run neither on it, nor on a   *)
(* member of it as an archive, nor on any entry below it, also when that   *)
(* descendant matches no filter itself.                                    *)
C29_IgnoredPruned ==
    \A j \in 1..Len(checked) :
        LET root == query.roots[checked[j].root]
        IN root.gitignore
           => /\ ~Ignored(checked[j].path)
              /\ \A dir \in DirsAbove(root.path, checked[j].path) \ {root.path} : ~Ignored(dir)

\* a finished walk of both roots that nothing else narrows or stops: in /r2 the file
\* k.txt was checked, the ignored directory c.tmp and its file in.txt (which no
\* filter matches) were not, the ignored archive y.zip and its member were not
C29_Witness ==
    /\ pc = "done" /\ Len(query.roots) = 2 /\ query.roots[2].gitignore
    /\ query.roots[2].archives /\ query.limit = 0
    /\ query.roots[2].min_depth = 0 /\ query.roots[2].max_depth = 0
    /\ WasChecked(2, "/r2/k.txt")
    /\ ~WasChecked(2, "/r2/c.tmp") /\ ~WasChecked(2, "/r2/c.tmp/in.txt")
    /\ \A i \in 1..Len(Unwrap(GitignoreFile("/r2"))) :
          ~FilterMatches(Unwrap(GitignoreFile("/r2"))[i], "/r2/c.tmp/in.txt", FALSE)
    /\ ~WasChecked(2, "/r2/y.zip") /\ ~MemberWasChecked(2, "/r2/y.zip", "inner/z.txt")
    /\ MemberWasChecked(1, "/r1/z.zip", "inner/x.txt")

----------------------------------------------------------------------------
(* Properties of two evaluations of one query.                             *)

\* the position of the mark between the two outputs
MarkAt == CHOOSE i \in 1..Len(printed) : printed[i].kind = "rerun"

\* a row without the comma a streamed JSON row starts with
RowText(text) == IF text /= <<>> /\ Head(text) = "," THEN Tail(text) ELSE text

\* the rows among the prints lo..hi
RowsBetween(lo, hi) ==
    LET part == SelectSeq(SubSeq(printed, lo, hi), LAMBDA p : p.kind = "row")
    IN [i \in 1..Len(part) |-> RowText(part[i].text)]

StreamedRows == RowsBetween(1, MarkAt - 1)
BufferedRows == RowsBetween(MarkAt + 1, Len(printed))

\* the number of occurrences of x in seq
Occurrences(seq, x) == Cardinality({i \in 1..Len(seq) : seq[i] = x})

(* C23: a query without limit and without aggregates, evaluated without an *)
(* order by clause (streaming) and with one (buffered) against the same    *)
(* file system, yields the same multiset of output rows.                   *)
C23_SameMultiset ==
    (SecondRun /\ pc = "done" /\ query.limit = 0)
    => /\ Len(StreamedRows) = Len(BufferedRows)
       /\ \A i \in 1..Len(StreamedRows) :
             Occurrences(StreamedRows, StreamedRows[i])
               = Occurrences(BufferedRows, StreamedRows[i])

\* both roots with archives, into json, ordered by name, no limit: the two outputs
\* hold the same rows, more than five of them, in different orders, and two
\* accepted entries have the same name
C23_Witness ==
    /\ SecondRun /\ pc = "done" /\ query.limit = 0
    /\ query.ordering_fields = <<FieldCol("Name")>>
    /\ WasChecked(1, "/r1/.gitignore") /\ WasChecked(1, "/r1/d/.gitignore")
    /\ query.expr = None
    /\ Len(query.roots) = 2 /\ query.roots[1].archives
    /\ query.output_format = "Json"
    /\ Len(StreamedRows) > 5
    /\ StreamedRows /= BufferedRows
    /\ \A i \in 1..Len(StreamedRows) : Occurrences(BufferedRows, StreamedRows[i]) = 1

----------------------------------------------------------------------------
(* Properties of a query whose root is an archive.                         *)

(* C24: with archives enabled, a query whose root path is itself a ZIP     *)
(* archive evaluates the members of the archive as virtual entries: for    *)
(* z.zip holding the single member inner/x.txt, `name from z.zip where     *)
(* is_archive = true archives` emits exactly one row, whose name column is *)
(* `[z.zip] inner/x.txt`.                                                  *)
C24_ArchiveRoot ==
    (pc = "done" /\ query = ArchivesQuery("/z.zip"))
    => /\ Len(Rows) = 1
       /\ SubSeq(Rows[1].text, 1, 4) = MemberLabel("z.zip", "inner/x.txt")

----------------------------------------------------------------------------
(* External sources.                                                       *)

RECURSIVE ExprFields(_)
\* the fields the predicates of an expression tree name
ExprFields(expr) ==
    IF expr.kind = "node" THEN ExprFields(expr.left) \cup ExprFields(expr.right)
    ELSE {expr.field}

\* the fields the query references: in its columns, its ordering and its expression
Referenced ==
    get_all_fields(query)
      \cup UNION {get_required_fields(query.ordering_fields[i]) :
                    i \in 1..Len(query.ordering_fields)}
      \cup (IF IsSome(query.expr) THEN ExprFields(Unwrap(query.expr)) ELSE {})

\* the fields whose value is read from the source a provider opens
SourceFields(provider) ==
    CASE provider = "imagesize" -> DimFields
      [] provider = "mp3" -> Mp3Fields
      [] provider = "shebang" -> {"IsShebang"}

Sources == {"imagesize", "mp3", "shebang"}

\* the providers called for the entry check_file returned from
Opened == {p \in Sources : CallCount(TheResult.calls \o TheResult.pcalls, p) > 0}

\* the fields of the predicates evaluated on the entry
EvaluatedFields == {TheResult.leaves[i].field : i \in 1..Len(TheResult.leaves)}

(* C25: the image probe is invoked for an entry only if the query          *)
(* references Width or Height, the audio probe only if it references an    *)
(* audio field, the first bytes of the file are read only if IsShebang is  *)
(* referenced, and the members of a ZIP archive are enumerated only under  *)
(* a root with archives enabled; for a rejected entry every source opened  *)
(* belongs to a predicate that was evaluated, never to one the             *)
(* short-circuit evaluation skipped: an entry of at most 30 bytes rejected *)
(* by `size > 30 and ...` has no source opened.                            *)
C25_SourcesOnDemand ==
    /\ IsSome(cf_res)
       => /\ \A p \in Opened : SourceFields(p) \cap Referenced /= {}
          /\ ~TheResult.passed
             => \A p \in Opened : SourceFields(p) \cap EvaluatedFields /= {}
    /\ (/\ IsSome(cf_res) /\ IsSome(query.expr) /\ cf_info = None
        /\ Unwrap(query.expr).kind = "node" /\ Unwrap(query.expr).logical_op = "And"
        /\ Unwrap(query.expr).left = Pred("Size", "Gt", "30")
        /\ Unwrap(Unwrap(cf_entry).fmeta).len <= 30)
       => Opened = {}
    /\ \A j \in 1..Len(checked) :
          IsSome(checked[j].member) => query.roots[checked[j].root].archives

\* the image /e/pic.png was rejected by `size > 30 and width >= 20`, whose right
\* predicate was skipped, without a probe of its dimensions
C25_Witness ==
    /\ IsSome(cf_res) /\ IsSome(cf_entry) /\ IsSome(query.expr)
    /\ Unwrap(cf_entry).path = "/e/pic.png"
    /\ Unwrap(query.expr) = Node("And", Pred("Size", "Gt", "30"), Pred("Width", "Gte", "20"))
    /\ ~TheResult.passed /\ Opened = {}
    /\ EvaluatedFields = {"Size"}

----------------------------------------------------------------------------
(* I/O errors during the walk.                                             *)

\* the path is a directory of the file system, whether or not its stat succeeds
IsDirectory(path) ==
    \/ path \in {"/f/e", "/gone"}
    \/ IsSome(EntryAt(path).fmeta) /\ Unwrap(EntryAt(path).fmeta).is_dir

\* the stat of the path fails
StatFails(path) == ~IsSome(EntryAt(path).lmeta)

\* the directory can be entered: its stat and its read_dir succeed
Enterable(dir) == ~StatFails(dir) /\ ~ReadDirFails(dir)

\* the items of the listing of dir that are entries
Listed(dir) == {ReadDir(dir)[i] : i \in {i \in 1..Len(ReadDir(dir)) : ~EntryFails(ReadDir(dir)[i])}}

\* the entries below dir outside the subtrees that cannot be entered
RECURSIVE Visitable(_)
Visitable(dir) ==
    IF ~Enterable(dir) THEN {}
    ELSE Listed(dir)
           \cup UNION {IF IsDirectory(c) THEN Visitable(c) ELSE {} : c \in Listed(dir)}

\* the directories at or below dir the walk comes to, dir included
DirsMet(dir) == {dir} \cup {c \in Visitable(dir) : IsDirectory(c)}

\* the stat or the read_dir of the directory fails, or an item of its listing
\* is an error
Faulty(dir) ==
    \/ StatFails(dir)
    \/ ReadDirFails(dir)
    \/ \E i \in 1..Len(ReadDir(dir)) : EntryFails(ReadDir(dir)[i])

\* an error was printed with the path
Reported(path) ==
    \E i \in 1..Len(printed) : printed[i].kind = "error" /\ printed[i].text = <<path>>

\* the walk is over and nothing narrowed it: no depth window, no gitignore, no
\* limit that stops a streaming walk
WalkedAll ==
    /\ pc = "done" /\ WholeTree(query)
    /\ (query.limit = 0 \/ is_buffered(query))

\* every entry outside the subtrees that cannot be entered was checked, under
\* every root
TraversalContinues ==
    WalkedAll
    => \A r \in 1..Len(query.roots) :
          \A e \in Visitable(query.roots[r].path) : WasChecked(r, e)

\* the errors visit_dirs itself meets are reported: the stat of a root, the
\* read_dir of a directory, an item of a listing
OwnErrorsReported ==
    WalkedAll
    => \A r \in 1..Len(query.roots) :
          \A d \in DirsMet(query.roots[r].path) :
              (\/ ReadDirFails(d)
               \/ StatFails(d) /\ d = query.roots[r].path
               \/ \E i \in 1..Len(ReadDir(d)) : EntryFails(ReadDir(d)[i]))
              => Reported(d)

(* C22: when the stat or the read_dir of a directory D fails, or an item   *)
(* of its listing cannot be read, an error is reported with the path D,    *)
(* and every entry outside the subtrees that cannot be entered is still    *)
(* checked, under this root and the later ones.                            *)
C22_ErrorsReported ==
    WalkedAll
    => \A r \in 1..Len(query.roots) :
          /\ \A d \in DirsMet(query.roots[r].path) : Faulty(d) => Reported(d)
          /\ \A e \in Visitable(query.roots[r].path) : WasChecked(r, e)

----------------------------------------------------------------------------
(* Termination of the walk.                                                *)

\* under a root that does not follow symlinks check_file is called at most once
\* on each directory entry
VisitedOnce ==
    \A i, j \in 1..Len(checked) :
        (/\ i < j /\ checked[i].root = checked[j].root
         /\ ~query.roots[checked[i].root].symlinks
         /\ checked[i].member = None /\ checked[j].member = None)
        => checked[i].path /= checked[j].path

\* the walk over the link /s/up to its ancestor /s came to a path the OS no
\* longer resolves, with symlinks followed and no depth limit
LoopWalked ==
    /\ query.roots[1].symlinks /\ query.roots[1].max_depth = 0
    /\ \E j \in 1..Len(checked) :
          checked[j].root = 1 /\ LinkCount(checked[j].path) = MaxLinks + 1

\* list_search_results comes to an end, by returning or by a panic
WalkEnds == <>(pc \in {"done", "panicked"})

\* a walk that followed the link to the ancestor came to its end
LoopWalkEnds == LoopWalked ~> (pc \in {"done", "panicked"})

\* without avg among the columns list_search_results prints the closing output
ClosingOutputWithoutAvg ==
    (\A i \in 1..Len(query.fields) : query.fields[i].function /= Some("Avg"))
      => <>(pc = "done")

(* C30: the traversal started by list_search_results terminates and comes  *)
(* to the closing output, whatever the options of the roots, also when     *)
(* symlinks are followed through a link to an ancestor with no depth       *)
(* limit; and under a root that does not follow symlinks every directory   *)
(* entry is visited at most once.                                          *)
C30_WalkTerminates == [](VisitedOnce) /\ <>(pc = "done")

====
